---- MODULE Spec2Model ----
(***************************************************************************)
(* Verification model of structured_indoor_modeling:                       *)
(*   - Panorama (src/floorplan/panorama.cc): load, transforms, projection, *)
(*     bilinear samplers, ResizeRGB.                                       *)
(*   - VisibilityDistance (src/segmentation/door_detection.cc).            *)
(*                                                                         *)
(* Number representation.  The code computes in double.  The model uses    *)
(* exact integers in fixed units:                                          *)
(*   - coordinates and distances: integer lattice points;                  *)
(*   - angles: ticks, Turn ticks = 2*M_PI; atan2 is rounded to the nearest *)
(*     tick; the addition theta + 2*M_PI is rounded like a floating-point  *)
(*     addition (the grid is coarser by UlpAtTwoPi just below 2*M_PI);     *)
(*   - pixel coordinates: units of 1/PixDen pixel;                         *)
(*   - quotients the code stores (phi_per_pixel, ...): pairs <<num, den>>. *)
(***************************************************************************)
EXTENDS Integers, Sequences, FiniteSets, TLC

\* ------------------------------------------------------------------------
\* Bounds of the model
\* ------------------------------------------------------------------------
MaxCoord == 2        \* global/local point coordinates range over -MaxCoord..MaxCoord
MaxDistance == 2     \* radial distances handed to Unproject range over 0..MaxDistance
MaxResizes == 1      \* number of ResizeRGB calls in one run
MaxBoundary == 3     \* boundary points are indexed 0..MaxBoundary-1
WDen == 2            \* signature weights are multiples of 1/WDen
MaxSide == 7         \* the frame raster of the distance field is MaxSide x MaxSide
MaxCandidates == 3   \* subsampled pixels (clustering candidates) 0..MaxCandidates-1
InitialClusterNum == 3  \* kInitialClusterNum scaled down to the candidates
MaskSide == 4               \* height of the frame handed to SetMask
PathSide == 5               \* side of the frame handed to FindShortestPaths
SightSide == 15             \* side of the frame handed to ComputeVisibility
NumPoints == 40      \* sweep points handed to SetRanges
MaxOutliers == 1     \* sweep points that lie apart from the bulk, at each end of an axis

\* ------------------------------------------------------------------------
\* Units
\* ------------------------------------------------------------------------
Turn == 16           \* ticks in 2 * M_PI
UlpAtTwoPi == 2      \* spacing of representable angles in [Turn/2, Turn)
PixDen == 4          \* pixel coordinates are multiples of 1/PixDen

Abs(n) == IF n < 0 THEN -n ELSE n
Sign(n) == IF n < 0 THEN -1 ELSE IF n > 0 THEN 1 ELSE 0
Min(a, b) == IF a < b THEN a ELSE b
Max(a, b) == IF a < b THEN b ELSE a

\* floor(n / d) for d > 0 (TLA+ \div floors for a positive divisor)
Floor(n, d) == n \div d

\* a quotient num/den kept exact; den = 0 is the result of a division by zero
Quot(n, d) == <<n, d>>

\* C++ integer remainder (sign of the dividend, truncating division)
CRem(a, b) ==
  LET q == Abs(a) \div Abs(b)
  IN  Sign(a) * (Abs(a) - q * Abs(b))

\* round v to the nearest multiple of step, ties to the even multiple
RoundNearestEven(v, step) ==
  LET q == v \div step
      r == v % step
  IN  IF 2 * r < step THEN q * step
      ELSE IF 2 * r > step THEN (q + 1) * step
      ELSE IF q % 2 = 0 THEN q * step ELSE (q + 1) * step

\* ------------------------------------------------------------------------
\* Library functions of <cmath>, at tick resolution
\* ------------------------------------------------------------------------
\* tan^2 of the tick midpoints pi/16 and 3*pi/16, in millionths
TanSqThresholds == <<39566, 446463>>

\* atan(sqrt(nsq / dsq)) in ticks for 0 <= nsq <= dsq, dsq > 0: 0, 1 or 2
AtanOctantSq(nsq, dsq) ==
  Cardinality({k \in 1..2 : nsq * 1000000 > TanSqThresholds[k] * dsq})

\* atan2(y, x) in ticks when only y^2 = ysq, x^2 = xsq and the signs are used
Atan2Signed(sy, ysq, sx, xsq) ==
  IF ysq = 0 /\ xsq = 0 THEN 0
  ELSE LET a == IF ysq <= xsq THEN AtanOctantSq(ysq, xsq)
                ELSE Turn \div 4 - AtanOctantSq(xsq, ysq)
       IN  IF sx > 0 THEN sy * a
           ELSE IF sx = 0 THEN sy * (Turn \div 4)
           ELSE IF sy >= 0 THEN Turn \div 2 - a
           ELSE -(Turn \div 2 - a)

\* atan2(y, x), result in -Turn/2 .. Turn/2
Atan2(y, x) == Atan2Signed(Sign(y), y * y, Sign(x), x * x)

\* atan2(z, sqrt(dsq)) for the horizontal depth sqrt(dsq) >= 0
Atan2Depth(z, dsq) == Atan2Signed(Sign(z), z * z, IF dsq > 0 THEN 1 ELSE 0, dsq)

\* sin and cos, exact at the multiples of a quarter turn
IsQuarter(t) == t % (Turn \div 4) = 0
Sin(t) ==
  LET q == (t % Turn) \div (Turn \div 4)
  IN  CASE q = 0 -> 0 [] q = 1 -> 1 [] q = 2 -> 0 [] q = 3 -> -1
Cos(t) == Sin(t + Turn \div 4)

\* ------------------------------------------------------------------------
\* Linear algebra (Eigen), matrices as tuples of rows, 1-based
\* ------------------------------------------------------------------------
MatVec4(m, v) == [i \in 1..4 |-> m[i][1] * v[1] + m[i][2] * v[2]
                                   + m[i][3] * v[3] + m[i][4] * v[4]]
MatMul4(a, b) ==
  [i \in 1..4 |-> [j \in 1..4 |->
     a[i][1] * b[1][j] + a[i][2] * b[2][j] + a[i][3] * b[3][j] + a[i][4] * b[4][j]]]
Identity4 == [i \in 1..4 |-> [j \in 1..4 |-> IF i = j THEN 1 ELSE 0]]
Zero4 == [i \in 1..4 |-> [j \in 1..4 |-> 0]]

\* ------------------------------------------------------------------------
\* Input files
\* ------------------------------------------------------------------------
\* what cv::imread returns: an empty matrix for an absent/unreadable file
ImageFiles == {"image_missing", "image_8x4", "image_4x2"}
ImRead(f) ==
  CASE f = "image_missing" -> [cols |-> 0, rows |-> 0, data |-> << >>]
    [] f = "image_8x4" ->
         [cols |-> 8, rows |-> 4,
          data |-> [v \in 0..3 |-> [u \in 0..7 |->
                      <<16 * u + v, 40 * v + 8, 240 - 24 * u>>]]]
    [] f = "image_4x2" ->
         [cols |-> 4, rows |-> 2,
          data |-> [v \in 0..1 |-> [u \in 0..3 |->
                      <<60 * u, 200 - 100 * v, 4 * u + 128 * v>>]]]

\* the depth file: header, width, height, min, max, then width*height samples
DepthFiles == {"depth_missing", "depth_4x2", "depth_2x3"}
DepthFile(f) ==
  CASE f = "depth_4x2" -> [width |-> 4, height |-> 2,
                           samples |-> <<4, 8, 12, 4, 6, 2, 10, 2>>]
    [] f = "depth_2x3" -> [width |-> 2, height |-> 3,
                           samples |-> <<3, 9, 5, 7, 1, 5>>]

\* the transform file: tag, 4x4 row-major matrix, phi_range (in ticks)
Identity3 == <<<<1, 0, 0>>, <<0, 1, 0>>, <<0, 0, 1>>>>
QuarterTurnZ == <<<<0, -1, 0>>, <<1, 0, 0>>, <<0, 0, 1>>>>
QuarterTurnX == <<<<1, 0, 0>>, <<0, 0, -1>>, <<0, 1, 0>>>>
\* panorama poses <<rotation, translation>>
Poses ==
  { <<Identity3, <<0, 0, 0>>>>,
    <<QuarterTurnZ, <<1, -1, 2>>>>,
    <<QuarterTurnX, <<0, 1, 0>>>> }
PhiRanges == { Turn \div 4, Turn \div 2 }
RigidMatrix(r, t) ==
  << <<r[1][1], r[1][2], r[1][3], t[1]>>,
     <<r[2][1], r[2][2], r[2][3], t[2]>>,
     <<r[3][1], r[3][2], r[3][3], t[3]>>,
     <<0, 0, 0, 1>> >>
TransformFiles ==
  { [matrix |-> RigidMatrix(pose[1], pose[2]), phi_range |-> p] :
      pose \in Poses, p \in PhiRanges }

\* values an uninitialized int member can hold when it is read
IndeterminateInts == {-1, 0, 2}

\* sizes handed to ResizeRGB and points handed to the transforms
ResizeSizes == { <<4, 2>>, <<8, 4>> }
Points == { <<x, y, z>> : x \in -MaxCoord..MaxCoord, y \in -MaxCoord..MaxCoord,
                          z \in -MaxCoord..MaxCoord }

\* ------------------------------------------------------------------------
\* State
\* ------------------------------------------------------------------------
VARIABLES
  status,               \* "constructed", "loaded", "init_failed", "aborted", "exited"
  rgb_image,            \* rows 0..height-1 of columns 0..width-1 of <<c0, c1, c2>>
  width, height,
  depth_image,          \* std::vector<double>, index v * depth_width + u (0-based)
  depth_width, depth_height,
  phi_range,            \* ticks
  phi_per_pixel,        \* Quot, ticks per pixel
  phi_per_depth_pixel,  \* Quot
  average_distance,     \* Quot
  local_to_global,
  global_to_local,
  resizes,              \* number of ResizeRGB calls so far
  call,                 \* the Panorama call in progress / its result
  vis_lhs, vis_rhs,     \* the two signatures handed to VisibilityDistance
  vis                   \* the VisibilityDistance call and its result

panoFields == <<rgb_image, width, height, depth_image, depth_width, depth_height,
                phi_range, phi_per_pixel, phi_per_depth_pixel, average_distance,
                local_to_global, global_to_local>>
panoVars == <<status, panoFields, resizes, call>>
visVars == <<vis_lhs, vis_rhs, vis>>

\* DetectDoors (door_detection.cc): the frame raster, the free-space mask,
\* the boundary pixels, the distance field with its priority queue, and the
\* position in the function
VARIABLES frame_size, mask, boundary, distance_to_boundary, water_front, door_pc
fieldVars == <<frame_size, mask, boundary, distance_to_boundary, water_front, door_pc>>

\* ClusterMerge (door_detection.cc): the signatures, the centers and the
\* clusters, the loop counters of ClusterMerge and Cluster, the last result
\* of Merge, the position in ClusterMerge and the calls it has made
VARIABLES weighted_visibility, centers, clusters, round_t, cluster_t, merged,
          merge_pc, calls,
          distances, pairs_to_merge    \* the locals of Merge
clusterVars == <<weighted_visibility, centers, clusters, round_t, cluster_t, merged,
                 merge_pc, calls, distances, pairs_to_merge>>

\* SetRanges (door_detection.cc): the coordinates of the sweep points on the
\* three frame axes, the average distance, the frame that SetRanges fills in
\* and the position in the call
VARIABLES histogram, sweep_average_distance, frame, ranges_pc
rangeVars == <<histogram, sweep_average_distance, frame, ranges_pc>>

\* the other stages of DetectDoors (door_detection.cc): the evidence SetMask
\* thresholds
VARIABLES free_space_evidence
\* FindShortestPaths: the seed, vector<ShortestPathNode> nodes, the queue of
\* ForegroundPath and the path TraceBack returns for every target
VARIABLES seed, nodes, path_front, paths
pathVars == <<seed, nodes, path_front, paths>>
\* ComputeVisibility: the visible boundary indexes of every subsampled
\* pixel; sight is the last call of IsVisible made on its own
VARIABLES visibility, sight
sightVars == <<visibility, sight>>
stageVars == <<free_space_evidence, pathVars, sightVars>>
doorVars == <<fieldVars, clusterVars, rangeVars, stageVars>>
vars == <<panoVars, visVars, doorVars>>

\* no Panorama is in use
PanoramaUnused ==
  /\ status = "constructed"
  /\ rgb_image = << >>
  /\ width = 0 /\ height = 0
  /\ depth_image = << >>
  /\ depth_width = 0 /\ depth_height = 0
  /\ phi_range = 0
  /\ phi_per_pixel = <<0, 0>>
  /\ phi_per_depth_pixel = <<0, 0>>
  /\ average_distance = <<0, 0>>
  /\ local_to_global = [i \in 1..4 |-> [j \in 1..4 |-> 0]]
  /\ global_to_local = [i \in 1..4 |-> [j \in 1..4 |-> 0]]
  /\ resizes = 0
  /\ call = [op |-> "none"]

\* no VisibilityDistance call is in progress
VisUnused == vis_lhs = << >> /\ vis_rhs = << >> /\ vis = [op |-> "none"]

\* no distance field is being computed
FieldUnused ==
  /\ frame_size = <<0, 0>>
  /\ mask = << >>
  /\ boundary = << >>
  /\ distance_to_boundary = << >>
  /\ water_front = {}
  /\ door_pc = "none"

\* no ClusterMerge call is in progress
ClusterUnused ==
  /\ weighted_visibility = << >>
  /\ centers = << >>
  /\ clusters = << >>
  /\ round_t = 0
  /\ cluster_t = 0
  /\ merged = FALSE
  /\ merge_pc = "none"
  /\ calls = << >>
  /\ distances = << >>
  /\ pairs_to_merge = << >>

\* no SetRanges call is in progress
RangeUnused ==
  /\ histogram = << >>
  /\ sweep_average_distance = 0
  /\ frame = [ranges |-> << >>, unit |-> <<0, 0>>, size |-> << >>]
  /\ ranges_pc = "none"

PathUnused ==
  /\ seed = <<0, 0>>
  /\ nodes = << >>
  /\ path_front = {}
  /\ paths = << >>

SightUnused ==
  /\ visibility = << >>
  /\ sight = [op |-> "none"]

StageUnused ==
  /\ free_space_evidence = << >>
  /\ PathUnused
  /\ SightUnused

DoorUnused == FieldUnused /\ ClusterUnused /\ RangeUnused /\ StageUnused

NoCall == [op |-> "none"]

\* ------------------------------------------------------------------------
\* Panorama: coordinate transforms
\* ------------------------------------------------------------------------
\* InverseRigid with the translation column not negated
InverseRigidNotNegated(l2g) ==
  LET rt(i, j) == l2g[j][i]
      tr(i) == rt(i, 1) * l2g[1][4] + rt(i, 2) * l2g[2][4] + rt(i, 3) * l2g[3][4]
  IN  << <<rt(1, 1), rt(1, 2), rt(1, 3), tr(1)>>,
         <<rt(2, 1), rt(2, 2), rt(2, 3), tr(2)>>,
         <<rt(3, 1), rt(3, 2), rt(3, 3), tr(3)>>,
         <<0, 0, 0, 1>> >>

\* InitCameraParameters, the inverse of a rotation + translation
InverseRigid(l2g) ==
  LET rt(i, j) == l2g[j][i]                       \* rotation.transpose()
      tr(i) == -(rt(i, 1) * l2g[1][4] + rt(i, 2) * l2g[2][4] + rt(i, 3) * l2g[3][4])
  IN  << <<rt(1, 1), rt(1, 2), rt(1, 3), tr(1)>>,
         <<rt(2, 1), rt(2, 2), rt(2, 3), tr(2)>>,
         <<rt(3, 1), rt(3, 2), rt(3, 3), tr(3)>>,
         <<0, 0, 0, 1>> >>

GlobalToLocal(global) ==
  LET global4 == <<global[1], global[2], global[3], 1>>
      local4 == MatVec4(global_to_local, global4)
  IN  <<local4[1], local4[2], local4[3]>>

\* the third component returned is local4[2] of the source, not global4[2]
LocalToGlobal(local) ==
  LET local4 == <<local[1], local[2], local[3], 1>>
      global4 == MatVec4(local_to_global, local4)
  IN  <<global4[1], global4[2], local4[3]>>

\* ------------------------------------------------------------------------
\* Panorama: projection
\* ------------------------------------------------------------------------
\* theta after "if (theta < 0.0) theta += 2 * M_PI", the sum rounded as a double
ProjectTheta(local) ==
  LET theta == -Atan2(local[2], local[1])
  IN  IF theta < 0 THEN RoundNearestEven(theta + Turn, UlpAtTwoPi) ELSE theta

\* max(0.0, min(1.0, theta / (2 * M_PI))), in units of 1/Turn
ClampedThetaRatio(local) == Max(0, Min(Turn, ProjectTheta(local)))

\* ThetaRatio without the reset of 1.0 to 0.0
ThetaRatioNotReset(local) == ClampedThetaRatio(local)

\* "if (theta_ratio == 1.0) theta_ratio = 0.0"
ThetaRatio(local) ==
  LET theta_ratio == ClampedThetaRatio(local)
  IN  IF theta_ratio = Turn THEN 0 ELSE theta_ratio

Project(global) ==
  LET local == GlobalToLocal(global)
      theta_ratio == ThetaRatio(local)
      u == (theta_ratio * width * PixDen) \div Turn
      phi == Atan2Depth(local[3], local[1] * local[1] + local[2] * local[2])
      \* phi / phi_per_pixel, in 1/PixDen pixels
      pixel_offset_from_center ==
        (phi * phi_per_pixel[2] * PixDen) \div phi_per_pixel[1]
      v == (height * PixDen) \div 2 - pixel_offset_from_center
  IN  <<u, v>>

\* the angles Unproject derives from a pixel, as quotients of ticks
UnprojectTheta(pixel) == Quot(-Turn * pixel[1], PixDen * width)
UnprojectPhi(pixel) ==
  Quot(((height * PixDen) \div 2 - pixel[2]) * phi_per_pixel[1],
       PixDen * phi_per_pixel[2])
IsWhole(q) == q[2] # 0 /\ q[1] % q[2] = 0
Whole(q) == q[1] \div q[2]

\* the pixels whose two angles are whole quarter turns (sin and cos exact)
IsExactPixel(pixel) ==
  /\ IsWhole(UnprojectTheta(pixel)) /\ IsQuarter(Whole(UnprojectTheta(pixel)))
  /\ IsWhole(UnprojectPhi(pixel)) /\ IsQuarter(Whole(UnprojectPhi(pixel)))

Unproject(pixel, distance) ==
  LET theta == Whole(UnprojectTheta(pixel))
      phi == Whole(UnprojectPhi(pixel))
      local == << distance * Cos(phi) * Cos(theta),
                  distance * Cos(phi) * Sin(theta),
                  distance * Sin(phi) >>
  IN  LocalToGlobal(local)

\* ------------------------------------------------------------------------
\* Panorama: bilinear samplers
\* ------------------------------------------------------------------------
\* IsInsideRGB testing the last row against height instead of height - 1
IsInsideRGBWholeHeight(pixel) ==
  IF pixel[1] < 0 \/ width * PixDen <= pixel[1] \/
     pixel[2] < 0 \/ height * PixDen <= pixel[2]
  THEN FALSE ELSE TRUE

IsInsideRGB(pixel) ==
  IF pixel[1] < 0 \/ width * PixDen <= pixel[1] \/
     pixel[2] < 0 \/ (height - 1) * PixDen <= pixel[2]
  THEN FALSE ELSE TRUE

IsInsideDepth(depth_pixel) ==
  IF depth_pixel[1] < 0 \/ depth_width * PixDen <= depth_pixel[1] \/
     depth_pixel[2] < 0 \/ (depth_height - 1) * PixDen <= depth_pixel[2]
  THEN FALSE ELSE TRUE

\* a read outside the raster has no defined value; OutOfRaster marks it
OutOfRaster == <<-1, -1, -1>>
RgbAt(v, u) ==
  IF v \in 0..(height - 1) /\ u \in 0..(width - 1) THEN rgb_image[v][u]
  ELSE OutOfRaster
DepthAt(index) ==
  IF index \in 0..(Len(depth_image) - 1) THEN depth_image[index + 1] ELSE -1

\* the four texels and weights of the interpolation at pixel in a raster
\* cols wide; weights in units of 1/PixDen^2
\* HorizontalNeighbour without the wrap
HorizontalNeighbourNotWrapped(u1, cols) == u1

\* "u1_corrected = (u1 % width)"
HorizontalNeighbour(u1, cols) == CRem(u1, cols)
Bilinear(pixel, cols) ==
  LET u0 == Floor(pixel[1], PixDen)
      v0 == Floor(pixel[2], PixDen)
      u1 == u0 + 1
      v1 == v0 + 1
      weight00 == (u1 * PixDen - pixel[1]) * (v1 * PixDen - pixel[2])
      weight01 == (pixel[1] - u0 * PixDen) * (v1 * PixDen - pixel[2])
      weight10 == (u1 * PixDen - pixel[1]) * (pixel[2] - v0 * PixDen)
      weight11 == (pixel[1] - u0 * PixDen) * (pixel[2] - v0 * PixDen)
      u1_corrected == HorizontalNeighbour(u1, cols)
  IN  [texels |-> << <<v0, u0>>, <<v0, u1_corrected>>, <<v1, u0>>, <<v1, u1_corrected>> >>,
       weights |-> <<weight00, weight01, weight10, weight11>>]

\* GetRGB past its IsInsideRGB test; value in units of 1/PixDen^2
GetRGB(pixel) ==
  LET b == Bilinear(pixel, width)
      color(k) == RgbAt(b.texels[k][1], b.texels[k][2])
      channel(c) == b.weights[1] * color(1)[c] + b.weights[2] * color(2)[c]
                    + b.weights[3] * color(3)[c] + b.weights[4] * color(4)[c]
  IN  [texels |-> b.texels, weights |-> b.weights,
       value |-> <<channel(1), channel(2), channel(3)>>]

\* GetDepth past its IsInsideDepth test
GetDepth(depth_pixel) ==
  LET b == Bilinear(depth_pixel, depth_width)
      sample(k) == DepthAt(b.texels[k][1] * depth_width + b.texels[k][2])
  IN  [texels |-> b.texels, weights |-> b.weights,
       indexes |-> [k \in 1..4 |-> b.texels[k][1] * depth_width + b.texels[k][2]],
       value |-> b.weights[1] * sample(1) + b.weights[2] * sample(2)
                 + b.weights[3] * sample(3) + b.weights[4] * sample(4)]

\* ------------------------------------------------------------------------
\* Panorama: ResizeRGB
\* ------------------------------------------------------------------------
\* cv::resize with its default bilinear interpolation: destination pixel
\* centres mapped to the source, neighbours clamped to the raster, rounded
CvResize(src, cols, rows, size) ==
  LET dcols == size[1]
      drows == size[2]
      pos(d, n, dn) == ((2 * d + 1) * n - dn)        \* source position * 2 * dn
      i0(d, n, dn) == Max(0, Min(n - 1, Floor(pos(d, n, dn), 2 * dn)))
      i1(d, n, dn) == Min(n - 1, i0(d, n, dn) + 1)
      fr(d, n, dn) == Max(0, Min(2 * dn, pos(d, n, dn) - i0(d, n, dn) * 2 * dn))
      texel(v, u, c) ==
        LET fu == fr(u, cols, dcols)
            fv == fr(v, rows, drows)
            su == 2 * dcols
            sv == 2 * drows
            sum == (su - fu) * (sv - fv) * src[i0(v, rows, drows)][i0(u, cols, dcols)][c]
                   + fu * (sv - fv) * src[i0(v, rows, drows)][i1(u, cols, dcols)][c]
                   + (su - fu) * fv * src[i1(v, rows, drows)][i0(u, cols, dcols)][c]
                   + fu * fv * src[i1(v, rows, drows)][i1(u, cols, dcols)][c]
        IN  (2 * sum + su * sv) \div (2 * su * sv)
  IN  [v \in 0..(drows - 1) |-> [u \in 0..(dcols - 1) |->
         <<texel(v, u, 1), texel(v, u, 2), texel(v, u, 3)>>]]

\* ResizedPhiPerPixel left at the value of before the resize
ResizedPhiPerPixelStale(size) == phi_per_pixel

\* "phi_per_pixel = phi_range / height" at the end of ResizeRGB
ResizedPhiPerPixel(size) == Quot(phi_range, size[2])

\* ------------------------------------------------------------------------
\* Panorama: Init
\* ------------------------------------------------------------------------
\* InitDepthImage with a readable depth file
DepthAverage(samples, w, h) ==
  LET sum[i \in 0..Len(samples)] == IF i = 0 THEN 0 ELSE sum[i - 1] + samples[i]
  IN  Quot(sum[Len(samples)], w * h)

\* what InitDepthImage leaves in depth_width / depth_height: the header of
\* a readable file; for a file that cannot be opened every extraction fails
\* and the members keep the indeterminate value the constructor left
DepthHeaderValues(depth_file, field) ==
  IF depth_file = "depth_missing" THEN IndeterminateInts
  ELSE {DepthFile(depth_file)[field]}

\* depth_image after resize() and the (possibly failing) extractions
LoadedDepthImage(depth_file, count) ==
  IF depth_file = "depth_missing" THEN [i \in 1..count |-> 0]
  ELSE DepthFile(depth_file).samples

LoadedAverageDistance(depth_file, w, h) ==
  IF depth_file = "depth_missing" THEN Quot(0, w * h)
  ELSE DepthAverage(DepthFile(depth_file).samples, w, h)

\* the test Init makes on what cv::imread returned
ImageNotLoaded(image) == image.cols = 0 /\ image.rows = 0

PanoramaInit(image_file, depth_file, transform_file) ==
  /\ status = "constructed"
  /\ LET image == ImRead(image_file)
     IN  IF ImageNotLoaded(image)
         THEN /\ rgb_image' = image.data
              /\ status' = "init_failed"
              /\ call' = [op |-> "Init", outcome |-> "false",
                          image_file |-> image_file, depth_file |-> depth_file]
              /\ UNCHANGED <<width, height, depth_image, depth_width, depth_height,
                             phi_range, phi_per_pixel, phi_per_depth_pixel,
                             average_distance, local_to_global, global_to_local>>
         ELSE \E dw \in DepthHeaderValues(depth_file, "width"),
                 dh \in DepthHeaderValues(depth_file, "height") :
              /\ rgb_image' = image.data
              /\ width' = image.cols
              /\ height' = image.rows
              /\ depth_width' = dw
              /\ depth_height' = dh
              /\ IF dw * dh < 0
                 THEN \* depth_image.resize() of a negative count throws
                      /\ status' = "aborted"
                      /\ call' = [op |-> "Init", outcome |-> "abort",
                                  image_file |-> image_file, depth_file |-> depth_file]
                      /\ UNCHANGED <<depth_image, phi_range, phi_per_pixel,
                                     phi_per_depth_pixel, average_distance,
                                     local_to_global, global_to_local>>
                 ELSE /\ depth_image' = LoadedDepthImage(depth_file, dw * dh)
                      /\ average_distance' = LoadedAverageDistance(depth_file, dw, dh)
                      /\ local_to_global' = transform_file.matrix
                      /\ global_to_local' = InverseRigid(transform_file.matrix)
                      /\ phi_range' = transform_file.phi_range
                      /\ phi_per_pixel' = Quot(transform_file.phi_range, image.rows)
                      /\ phi_per_depth_pixel' = Quot(transform_file.phi_range, dh)
                      /\ status' = "loaded"
                      /\ call' = [op |-> "Init", outcome |-> "true",
                                  image_file |-> image_file, depth_file |-> depth_file]
  /\ UNCHANGED <<resizes, visVars, doorVars>>

\* ------------------------------------------------------------------------
\* Panorama: the calls a client makes on a loaded panorama
\* ------------------------------------------------------------------------
Idle == status = "loaded" /\ call = NoCall

\* pixels at every half pixel from one step outside the raster on each side
SamplePixels(cols, rows) ==
  LET half == PixDen \div 2
  IN  { <<half * i, half * j>> : i \in -1..(2 * cols + 1), j \in -1..(2 * rows + 1) }

\* pixels of the whole raster, border included, at every 1/PixDen
RasterPixels == { <<i, j>> : i \in 0..(width * PixDen), j \in 0..(height * PixDen) }

ResizeRGB(size) ==
  /\ Idle
  /\ resizes < MaxResizes
  /\ rgb_image' = CvResize(rgb_image, width, height, size)
  /\ width' = size[1]
  /\ height' = size[2]
  /\ phi_per_pixel' = ResizedPhiPerPixel(size)
  /\ resizes' = resizes + 1
  /\ call' = [op |-> "ResizeRGB", outcome |-> "void", arg |-> size]
  /\ UNCHANGED <<status, depth_image, depth_width, depth_height, phi_range,
                 phi_per_depth_pixel, average_distance, local_to_global,
                 global_to_local, visVars, doorVars>>

CallProject(global) ==
  /\ Idle
  /\ call' = [op |-> "Project", outcome |-> "value", arg |-> global,
              ret |-> Project(global)]
  /\ UNCHANGED <<status, panoFields, resizes, visVars, doorVars>>

CallUnproject(pixel, distance) ==
  /\ Idle
  /\ IsExactPixel(pixel)
  /\ call' = [op |-> "Unproject", outcome |-> "value", arg |-> pixel,
              distance |-> distance, ret |-> Unproject(pixel, distance)]
  /\ UNCHANGED <<status, panoFields, resizes, visVars, doorVars>>

CallGlobalToLocal(global) ==
  /\ Idle
  /\ call' = [op |-> "GlobalToLocal", outcome |-> "value", arg |-> global,
              ret |-> GlobalToLocal(global)]
  /\ UNCHANGED <<status, panoFields, resizes, visVars, doorVars>>

CallLocalToGlobal(local) ==
  /\ Idle
  /\ call' = [op |-> "LocalToGlobal", outcome |-> "value", arg |-> local,
              ret |-> LocalToGlobal(local)]
  /\ UNCHANGED <<status, panoFields, resizes, visVars, doorVars>>

\* GetRGB: exit(1) for a pixel outside, the interpolated colour otherwise
CallGetRGB(pixel) ==
  /\ Idle
  /\ IF ~IsInsideRGB(pixel)
     THEN /\ status' = "exited"
          /\ call' = [op |-> "GetRGB", outcome |-> "exit", arg |-> pixel]
     ELSE /\ status' = status
          /\ call' = [op |-> "GetRGB", outcome |-> "value", arg |-> pixel,
                      ret |-> GetRGB(pixel)]
  /\ UNCHANGED <<panoFields, resizes, visVars, doorVars>>

CallGetDepth(depth_pixel) ==
  /\ Idle
  /\ IF ~IsInsideDepth(depth_pixel)
     THEN /\ status' = "exited"
          /\ call' = [op |-> "GetDepth", outcome |-> "exit", arg |-> depth_pixel]
     ELSE /\ status' = status
          /\ call' = [op |-> "GetDepth", outcome |-> "value", arg |-> depth_pixel,
                      ret |-> GetDepth(depth_pixel)]
  /\ UNCHANGED <<panoFields, resizes, visVars, doorVars>>

\* the client takes the result; the panorama is ready for the next call
Return ==
  /\ status = "loaded"
  /\ call # NoCall
  /\ call' = NoCall
  /\ UNCHANGED <<status, panoFields, resizes, visVars, doorVars>>

\* ------------------------------------------------------------------------
\* Specification of the Panorama
\* ------------------------------------------------------------------------
\* Panorama::Panorama() initializes no member; the placeholders below stand
\* for members no operation reads before Init assigns them (depth_width and
\* depth_height excepted, see DepthHeaderValues)
Init ==
  /\ status = "constructed"
  /\ rgb_image = << >>
  /\ width = 0 /\ height = 0
  /\ depth_image = << >>
  /\ depth_width = 0 /\ depth_height = 0
  /\ phi_range = 0
  /\ phi_per_pixel = Quot(0, 0)
  /\ phi_per_depth_pixel = Quot(0, 0)
  /\ average_distance = Quot(0, 0)
  /\ local_to_global = Zero4
  /\ global_to_local = Zero4
  /\ resizes = 0
  /\ call = NoCall
  /\ vis_lhs = << >> /\ vis_rhs = << >> /\ vis = NoCall
  /\ DoorUnused

Next ==
  \/ /\ status = "constructed"
     /\ \E image_file \in ImageFiles, depth_file \in DepthFiles,
           transform_file \in TransformFiles :
          PanoramaInit(image_file, depth_file, transform_file)
  \/ Idle /\ \E size \in ResizeSizes : ResizeRGB(size)
  \/ Idle /\ \E global \in Points : CallProject(global)
  \/ Idle /\ \E pixel \in RasterPixels, distance \in 0..MaxDistance :
               CallUnproject(pixel, distance)
  \/ Idle /\ \E global \in Points : CallGlobalToLocal(global)
  \/ Idle /\ \E local \in Points : CallLocalToGlobal(local)
  \/ Idle /\ \E pixel \in SamplePixels(width, height) : CallGetRGB(pixel)
  \/ Idle /\ \E depth_pixel \in SamplePixels(depth_width, depth_height) :
               CallGetDepth(depth_pixel)
  \/ Return

Spec == Init /\ [][Next]_vars

\* ------------------------------------------------------------------------
\* Properties of the Panorama (checked under Spec)
\* ------------------------------------------------------------------------
\* C1: GlobalToLocal and LocalToGlobal are inverse to each other: for every
\* point x, GlobalToLocal(LocalToGlobal(x)) = x and
\* LocalToGlobal(GlobalToLocal(x)) = x, in all three coordinates.
C1_TransformsAreInverse ==
  /\ call.op = "LocalToGlobal" => GlobalToLocal(call.ret) = call.arg
  /\ call.op = "GlobalToLocal" => LocalToGlobal(call.ret) = call.arg

\* C2: after InitCameraParameters has loaded a rotation + translation,
\* global_to_local * local_to_global is the identity and the last row of
\* global_to_local is [0, 0, 0, 1].
C2_GlobalToLocalIsInverse ==
  status = "loaded" =>
    /\ MatMul4(global_to_local, local_to_global) = Identity4
    /\ global_to_local[4] = <<0, 0, 0, 1>>

\* a panorama loaded with a rotation that is not the identity and a
\* translation that is not zero: the inverse has a translation column of
\* its own
C2_Witness ==
  /\ status = "loaded"
  /\ local_to_global[1][1] = 0
  /\ local_to_global[2][4] # 0
  /\ global_to_local[1][4] # 0
  /\ global_to_local # local_to_global

\* the points whose local coordinates lie on a coordinate axis: their two
\* angles are whole quarter turns and their distance from the panorama
\* origin is an integer
OnLocalAxis(global) ==
  LET local == GlobalToLocal(global)
  IN  Cardinality({i \in 1..3 : local[i] # 0}) <= 1
DistanceFromOrigin(global) ==
  LET local == GlobalToLocal(global)
  IN  Abs(local[1]) + Abs(local[2]) + Abs(local[3])

\* C3: Unproject inverts Project: for every global point p that projects
\* inside the raster, Unproject(Project(p), d) = p when d is the distance of
\* p from the panorama origin.
C3_UnprojectInvertsProject ==
  (/\ call.op = "Project"
   /\ OnLocalAxis(call.arg)
   /\ IsInsideRGB(call.ret)
   /\ IsExactPixel(call.ret))
  => Unproject(call.ret, DistanceFromOrigin(call.arg)) = call.arg

\* C4: the horizontal pixel coordinate returned by Project satisfies
\* 0 <= u < width; a clamped theta_ratio of exactly 1.0 gives column 0.
C4_ProjectColumnInRange ==
  call.op = "Project" =>
    /\ 0 <= call.ret[1]
    /\ call.ret[1] < width * PixDen
    /\ ClampedThetaRatio(GlobalToLocal(call.arg)) = Turn => call.ret[1] = 0

\* Project has returned for a point whose theta_ratio was clamped to 1.0
C4_Witness ==
  /\ call.op = "Project"
  /\ ClampedThetaRatio(GlobalToLocal(call.arg)) = Turn
  /\ call.ret[1] = 0

\* the texels and weights the claim C5 names, written from the pixel alone
ExpectedTexels(pixel, cols) ==
  LET u0 == pixel[1] \div PixDen
      v0 == pixel[2] \div PixDen
  IN  << <<v0, u0>>, <<v0, (u0 + 1) % cols>>,
         <<v0 + 1, u0>>, <<v0 + 1, (u0 + 1) % cols>> >>

\* C5: GetRGB and GetDepth interpolate over the texels (u0,v0),
\* (u1 mod width,v0), (u0,v1), (u1 mod width,v1): the horizontal neighbour
\* wraps modulo the raster width, the vertical neighbour is v0 + 1 without
\* wrapping, the four weights sum to 1 and the result is the weighted sum
\* of the four texels.
C5_BilinearWithHorizontalWrap ==
  LET u0 == call.arg[1] \div PixDen
      v0 == call.arg[2] \div PixDen
      w == call.ret.weights
  IN
  /\ (call.op = "GetRGB" /\ call.outcome = "value") =>
       LET u1w == (u0 + 1) % width
       IN  /\ call.ret.texels = ExpectedTexels(call.arg, width)
           /\ w[1] + w[2] + w[3] + w[4] = PixDen * PixDen
           /\ \A k \in 1..4 : w[k] >= 0
           /\ \A c \in 1..3 :
                call.ret.value[c] =
                  w[1] * rgb_image[v0][u0][c] + w[2] * rgb_image[v0][u1w][c]
                  + w[3] * rgb_image[v0 + 1][u0][c] + w[4] * rgb_image[v0 + 1][u1w][c]
           /\ (call.arg[1] % PixDen = 0 /\ call.arg[2] % PixDen = 0) =>
                \A c \in 1..3 :
                  call.ret.value[c] = PixDen * PixDen * rgb_image[v0][u0][c]
  /\ (call.op = "GetDepth" /\ call.outcome = "value") =>
       LET u1w == (u0 + 1) % depth_width
           at(v, u) == depth_image[v * depth_width + u + 1]
       IN  /\ call.ret.texels = ExpectedTexels(call.arg, depth_width)
           /\ w[1] + w[2] + w[3] + w[4] = PixDen * PixDen
           /\ \A k \in 1..4 : w[k] >= 0
           /\ call.ret.value =
                w[1] * at(v0, u0) + w[2] * at(v0, u1w)
                + w[3] * at(v0 + 1, u0) + w[4] * at(v0 + 1, u1w)

\* GetRGB has sampled half a pixel before the right edge: the last and the
\* first column are blended with equal weight
C5_Witness ==
  /\ call.op = "GetRGB" /\ call.outcome = "value"
  /\ call.arg[1] = width * PixDen - PixDen \div 2
  /\ call.ret.texels[1][2] = width - 1
  /\ call.ret.texels[2][2] = 0
  /\ call.ret.weights[1] = call.ret.weights[2]
  /\ call.ret.weights[1] > 0

\* C6: GetRGB ends in the error outcome exactly when the pixel is outside
\* [0,width) x [0,height-1), GetDepth exactly when the depth pixel is
\* outside [0,depth_width) x [0,depth_height-1); for an accepted pixel all
\* four texel indices read lie inside the raster.
C6_SamplerDomain ==
  /\ call.op = "GetRGB" =>
       /\ call.outcome = "exit" <=>
            ~(/\ 0 <= call.arg[1] /\ call.arg[1] < width * PixDen
              /\ 0 <= call.arg[2] /\ call.arg[2] < (height - 1) * PixDen)
       /\ call.outcome = "value" =>
            \A k \in 1..4 : /\ call.ret.texels[k][1] \in 0..(height - 1)
                            /\ call.ret.texels[k][2] \in 0..(width - 1)
  /\ call.op = "GetDepth" =>
       /\ call.outcome = "exit" <=>
            ~(/\ 0 <= call.arg[1] /\ call.arg[1] < depth_width * PixDen
              /\ 0 <= call.arg[2] /\ call.arg[2] < (depth_height - 1) * PixDen)
       /\ call.outcome = "value" =>
            \A k \in 1..4 :
              /\ call.ret.texels[k][1] \in 0..(depth_height - 1)
              /\ call.ret.texels[k][2] \in 0..(depth_width - 1)
              /\ call.ret.indexes[k] \in 0..(Len(depth_image) - 1)

\* GetRGB has refused a pixel of the last row, which lies in the raster but
\* has no row below it
C6_Witness ==
  /\ call.op = "GetRGB" /\ call.outcome = "exit"
  /\ 0 <= call.arg[1] /\ call.arg[1] < width * PixDen
  /\ (height - 1) * PixDen <= call.arg[2] /\ call.arg[2] < height * PixDen

\* C7: Init returns failure, without aborting, whenever the panorama image
\* file or the depth file is absent or unreadable, and reports success only
\* when both were loaded.
C7_InitFailsOnMissingInput ==
  call.op = "Init" =>
    /\ (call.image_file = "image_missing" \/ call.depth_file = "depth_missing")
         => call.outcome = "false"
    /\ call.outcome = "true"
         => (call.image_file # "image_missing" /\ call.depth_file # "depth_missing")

\* equality of two quotients
QuotEq(p, q) == p[1] * q[2] = q[1] * p[2] /\ (p[2] = 0 <=> q[2] = 0)

\* C8: ResizeRGB changes only the RGB raster, width, height and
\* phi_per_pixel, and leaves phi_per_pixel = phi_range / height; no other
\* operation on a loaded panorama changes any field.
C8_OnlyResizeRGBWrites ==
  [][status = "loaded" =>
       IF call'.op = "ResizeRGB" /\ call.op = "none"
       THEN /\ UNCHANGED <<depth_image, depth_width, depth_height,
                           phi_per_depth_pixel, phi_range, average_distance,
                           local_to_global, global_to_local>>
            /\ width' = call'.arg[1] /\ height' = call'.arg[2]
            /\ QuotEq(phi_per_pixel', Quot(phi_range', height'))
       ELSE UNCHANGED panoFields]_vars

\* ResizeRGB has produced a raster that is none of the loaded images, of
\* another height than before
C8_Witness ==
  /\ call.op = "ResizeRGB"
  /\ \A f \in ImageFiles : rgb_image # ImRead(f).data
  /\ height = call.arg[2]
  /\ Len(depth_image) > 0
  /\ QuotEq(phi_per_pixel, Quot(phi_range, height))


\* ------------------------------------------------------------------------
\* VisibilityDistance (door_detection.cc)
\* ------------------------------------------------------------------------
\* a signature is a vector<pair<int, float>>: <<boundary index, weight>>,
\* ascending in the boundary index (ComputeVisibility pushes b = 0, 1, ...)
RECURSIVE AscendingSeq(_)
AscendingSeq(S) ==
  IF S = {} THEN << >>
  ELSE LET m == CHOOSE x \in S : \A y \in S : x <= y
       IN  <<m>> \o AscendingSeq(S \ {m})

Signatures ==
  UNION { { [k \in 1..Cardinality(S) |-> <<AscendingSeq(S)[k], w[AscendingSeq(S)[k]]>>] :
              w \in [S -> 0..WDen] } :
          S \in SUBSET (0..(MaxBoundary - 1)) }

\* VisibilityWalk whose "equal index" branch adds the difference of the weights
RECURSIVE VisibilityWalkWeightDifference(_, _, _, _, _)
VisibilityWalkWeightDifference(lhs, rhs, lhs_index, rhs_index, distance) ==
  IF ~(lhs_index < Len(lhs) \/ rhs_index < Len(rhs)) THEN distance
  ELSE IF lhs_index = Len(lhs)
    THEN VisibilityWalkWeightDifference(lhs, rhs, lhs_index, rhs_index + 1,
                                        distance + rhs[rhs_index + 1][2])
  ELSE IF rhs_index = Len(rhs)
    THEN VisibilityWalkWeightDifference(lhs, rhs, lhs_index + 1, rhs_index,
                                        distance + lhs[lhs_index + 1][2])
  ELSE IF lhs[lhs_index + 1][1] = rhs[rhs_index + 1][1]
    THEN VisibilityWalkWeightDifference(lhs, rhs, lhs_index + 1, rhs_index + 1,
           distance + Abs(lhs[lhs_index + 1][2] - rhs[rhs_index + 1][2]))
  ELSE IF lhs[lhs_index + 1][1] < rhs[rhs_index + 1][1]
    THEN VisibilityWalkWeightDifference(lhs, rhs, lhs_index + 1, rhs_index,
                                        distance + lhs[lhs_index + 1][2])
  ELSE VisibilityWalkWeightDifference(lhs, rhs, lhs_index, rhs_index + 1,
                                      distance + rhs[rhs_index + 1][2])

\* VisibilityWalk whose "lhs index smaller" branch adds the rhs weight
RECURSIVE VisibilityWalkSkewed(_, _, _, _, _)
VisibilityWalkSkewed(lhs, rhs, lhs_index, rhs_index, distance) ==
  IF ~(lhs_index < Len(lhs) \/ rhs_index < Len(rhs)) THEN distance
  ELSE IF lhs_index = Len(lhs)
    THEN VisibilityWalkSkewed(lhs, rhs, lhs_index, rhs_index + 1,
                              distance + rhs[rhs_index + 1][2])
  ELSE IF rhs_index = Len(rhs)
    THEN VisibilityWalkSkewed(lhs, rhs, lhs_index + 1, rhs_index,
                              distance + lhs[lhs_index + 1][2])
  ELSE IF lhs[lhs_index + 1][1] = rhs[rhs_index + 1][1]
    THEN VisibilityWalkSkewed(lhs, rhs, lhs_index + 1, rhs_index + 1, distance)
  ELSE IF lhs[lhs_index + 1][1] < rhs[rhs_index + 1][1]
    THEN VisibilityWalkSkewed(lhs, rhs, lhs_index + 1, rhs_index,
                              distance + rhs[rhs_index + 1][2])
  ELSE VisibilityWalkSkewed(lhs, rhs, lhs_index, rhs_index + 1,
                            distance + rhs[rhs_index + 1][2])

\* the while loop; lhs_index / rhs_index are the 0-based indexes of the code
RECURSIVE VisibilityWalk(_, _, _, _, _)
VisibilityWalk(lhs, rhs, lhs_index, rhs_index, distance) ==
  IF ~(lhs_index < Len(lhs) \/ rhs_index < Len(rhs)) THEN distance
  ELSE IF lhs_index = Len(lhs)
    THEN VisibilityWalk(lhs, rhs, lhs_index, rhs_index + 1,
                        distance + rhs[rhs_index + 1][2])
  ELSE IF rhs_index = Len(rhs)
    THEN VisibilityWalk(lhs, rhs, lhs_index + 1, rhs_index,
                        distance + lhs[lhs_index + 1][2])
  ELSE IF lhs[lhs_index + 1][1] = rhs[rhs_index + 1][1]
    THEN VisibilityWalk(lhs, rhs, lhs_index + 1, rhs_index + 1, distance)
  ELSE IF lhs[lhs_index + 1][1] < rhs[rhs_index + 1][1]
    THEN VisibilityWalk(lhs, rhs, lhs_index + 1, rhs_index,
                        distance + lhs[lhs_index + 1][2])
  ELSE VisibilityWalk(lhs, rhs, lhs_index, rhs_index + 1,
                      distance + rhs[rhs_index + 1][2])

\* VisibilityDistance returning the sum without halving it
VisibilityDistanceNotHalved(lhs, rhs) == Quot(VisibilityWalk(lhs, rhs, 0, 0, 0), 1)

\* "return distance / 2.0": the quotient, in units of 1/WDen
VisibilityDistance(lhs, rhs) == Quot(VisibilityWalk(lhs, rhs, 0, 0, 0), 2)

CallVisibilityDistance ==
  /\ vis = NoCall
  /\ vis' = [op |-> "VisibilityDistance", ret |-> VisibilityDistance(vis_lhs, vis_rhs)]
  /\ UNCHANGED <<panoVars, vis_lhs, vis_rhs, doorVars>>

\* the pure function applied to every pair of signatures
VisInit ==
  /\ status = "constructed"
  /\ rgb_image = << >>
  /\ width = 0 /\ height = 0
  /\ depth_image = << >>
  /\ depth_width = 0 /\ depth_height = 0
  /\ phi_range = 0
  /\ phi_per_pixel = Quot(0, 0)
  /\ phi_per_depth_pixel = Quot(0, 0)
  /\ average_distance = Quot(0, 0)
  /\ local_to_global = Zero4
  /\ global_to_local = Zero4
  /\ resizes = 0
  /\ call = NoCall
  /\ vis_lhs \in Signatures
  /\ vis_rhs \in Signatures
  /\ vis = NoCall
  /\ DoorUnused

VisNext == CallVisibilityDistance

VisSpec == VisInit /\ [][VisNext]_vars

\* ------------------------------------------------------------------------
\* Properties of VisibilityDistance (checked under VisSpec)
\* ------------------------------------------------------------------------
IsZeroQuot(q) == q[2] # 0 /\ q[1] = 0

\* C9: VisibilityDistance(a, a) = 0 for every signature a, and
\* VisibilityDistance(a, b) = VisibilityDistance(b, a) for every pair of
\* signatures sorted ascending by boundary index.
C9_ZeroOnEqualAndSymmetric ==
  vis.op = "VisibilityDistance" =>
    /\ vis_lhs = vis_rhs => IsZeroQuot(vis.ret)
    /\ vis.ret = VisibilityDistance(vis_rhs, vis_lhs)

\* the distance of two different signatures that share a boundary index and
\* each see a boundary point the other does not
C9_Witness ==
  /\ vis.op = "VisibilityDistance"
  /\ Len(vis_lhs) = 2 /\ Len(vis_rhs) = 2
  /\ vis_lhs[1][1] < vis_rhs[1][1]
  /\ vis_lhs[2][1] = vis_rhs[1][1]
  /\ vis_lhs[1][2] # vis_rhs[2][2]
  /\ vis.ret[1] > 0

\* a signature is empty or has non-negative weights that sum to 1
RECURSIVE WeightSum(_)
WeightSum(sig) == IF sig = << >> THEN 0 ELSE sig[1][2] + WeightSum(Tail(sig))
IsNormalized(sig) ==
  sig = << >> \/ (WeightSum(sig) = WDen /\ \A k \in 1..Len(sig) : sig[k][2] >= 0)
SharedIndexes(a, b) ==
  {a[k][1] : k \in 1..Len(a)} \cap {b[k][1] : k \in 1..Len(b)}

\* C10: for two signatures that are each empty or normalized, the
\* VisibilityDistance lies in [0, 1], and it is 1 when both are non-empty
\* and share no boundary index.
C10_DistanceInUnitInterval ==
  (/\ vis.op = "VisibilityDistance"
   /\ IsNormalized(vis_lhs) /\ IsNormalized(vis_rhs)) =>
    /\ 0 <= vis.ret[1]
    /\ vis.ret[1] <= vis.ret[2] * WDen
    /\ (vis_lhs # << >> /\ vis_rhs # << >> /\ SharedIndexes(vis_lhs, vis_rhs) = {})
         => vis.ret[1] = vis.ret[2] * WDen

\* the distance of two normalized signatures with no common boundary index
C10_Witness ==
  /\ vis.op = "VisibilityDistance"
  /\ IsNormalized(vis_lhs) /\ IsNormalized(vis_rhs)
  /\ Len(vis_lhs) = 2 /\ Len(vis_rhs) = 1
  /\ SharedIndexes(vis_lhs, vis_rhs) = {}
  /\ vis.ret[1] = vis.ret[2] * WDen

\* a signature as a sparse weight vector over the boundary indexes
IndexesOf(sig) == {sig[k][1] : k \in 1..Len(sig)}
WeightAt(sig, i) ==
  IF i \in IndexesOf(sig)
  THEN sig[CHOOSE k \in 1..Len(sig) : sig[k][1] = i][2]
  ELSE 0
RECURSIVE SumOver(_, _, _)
SumOver(S, a, b) ==
  IF S = {} THEN 0
  ELSE LET i == CHOOSE x \in S : TRUE
       IN  Abs(WeightAt(a, i) - WeightAt(b, i)) + SumOver(S \ {i}, a, b)
L1Distance(a, b) == SumOver(IndexesOf(a) \cup IndexesOf(b), a, b)
UnsharedWeight(a, b) ==
  SumOver((IndexesOf(a) \cup IndexesOf(b)) \ SharedIndexes(a, b), a, b)

\* C11 as stated: VisibilityDistance(a, b) is half the L1 distance of a and b
\* as sparse weight vectors, (1/2) * sum over i of |a[i] - b[i]| with absent
\* indexes counted as weight 0.
C11_HalfL1Distance ==
  vis.op = "VisibilityDistance" =>
    vis.ret = Quot(L1Distance(vis_lhs, vis_rhs), 2)

\* C11 amended: VisibilityDistance(a, b) is half the sum of the weights at
\* the boundary indexes present in exactly one of a and b (an index present
\* in both contributes 0 whatever its two weights are); it never exceeds half
\* the L1 distance and equals it exactly when the weights agree on every
\* shared index.
C11_HalfUnsharedWeight ==
  vis.op = "VisibilityDistance" =>
    /\ vis.ret = Quot(UnsharedWeight(vis_lhs, vis_rhs), 2)
    /\ vis.ret[1] <= L1Distance(vis_lhs, vis_rhs)
    /\ (vis.ret = Quot(L1Distance(vis_lhs, vis_rhs), 2))
         <=> \A i \in SharedIndexes(vis_lhs, vis_rhs) :
               WeightAt(vis_lhs, i) = WeightAt(vis_rhs, i)

\* the distance of two signatures that disagree on the weight of a shared
\* boundary index and of which one sees a boundary point the other does not
C11_Witness ==
  /\ vis.op = "VisibilityDistance"
  /\ \E i \in SharedIndexes(vis_lhs, vis_rhs) :
       WeightAt(vis_lhs, i) # WeightAt(vis_rhs, i)
  /\ \E i \in IndexesOf(vis_rhs) \ IndexesOf(vis_lhs) : WeightAt(vis_rhs, i) > 0
  /\ vis.ret[1] > 0
  /\ vis.ret[1] < L1Distance(vis_lhs, vis_rhs)

\* ------------------------------------------------------------------------
\* FindBoundary and SetDistanceToBoundary (door_detection.cc)
\* ------------------------------------------------------------------------
\* A distance is a sum of steps of length 1 and sqrt(2): the model keeps the
\* exact number a + b * sqrt(2) as <<a, b>> and compares two of them exactly.
SqrtTwoSign(a, b) ==
  IF a >= 0 /\ b >= 0 THEN (IF a = 0 /\ b = 0 THEN 0 ELSE 1)
  ELSE IF a <= 0 /\ b <= 0 THEN -1
  ELSE IF a > 0 THEN (IF a * a > 2 * b * b THEN 1 ELSE -1)
  ELSE (IF 2 * b * b > a * a THEN 1 ELSE -1)
ScoreLess(p, q) == SqrtTwoSign(q[1] - p[1], q[2] - p[2]) = 1
ScoreAdd(p, q) == <<p[1] + q[1], p[2] + q[2]>>

\* a step norm that charges a diagonal step like an axis-aligned one
StepNormChessboard(i, j) == <<1, 0>>

\* sqrt(i * i + j * j) for a step to one of the eight neighbours
StepNorm(i, j) == IF i * i + j * j = 1 THEN <<1, 0>> ELSE <<0, 1>>

\* numeric_limits<float>::max(): a finite number above every path length
FltMax == <<MaxSide * MaxSide, MaxSide * MaxSide>>

\* the masks handed to FindBoundary and SetDistanceToBoundary: vector<bool>
\* indexed y * width + x (0-based; the sequences of the model are 1-based),
\* false on the one-pixel border of the raster.  The model takes every
\* rectangle of interior pixels with at most one pixel taken out of it.
Rectangle(x0, x1, y0, y1) == (x0..x1) \X (y0..y1)
MaskOf(pixels, w, h) ==
  [index1 \in 1..(w * h) |-> <<(index1 - 1) % w, (index1 - 1) \div w>> \in pixels]
Masks(w, h) ==
  { MaskOf(Rectangle(x0, x1, y0, y1) \ {hole}, w, h) :
      x0 \in 1..(w - 2), x1 \in 1..(w - 2), y0 \in 1..(h - 2), y1 \in 1..(h - 2),
      hole \in (1..(w - 2)) \X (1..(h - 2)) }

\* the pixels the two row-major loops "for y in 1..height-2, for x in
\* 1..width-2" visit, in the order they visit them
InteriorPixels(w, h) ==
  [k \in 1..((w - 2) * (h - 2)) |-> <<1 + ((k - 1) % (w - 2)), 1 + ((k - 1) \div (w - 2))>>]

\* FindBoundary's test of the pixel at index
IsBoundaryPixel(m, w, index) ==
  /\ m[index + 1]
  /\ \/ ~m[(index - 1) + 1]
     \/ ~m[(index + 1) + 1]
     \/ ~m[(index - w) + 1]
     \/ ~m[(index + w) + 1]

FindBoundary(w, h, m) ==
  SelectSeq(InteriorPixels(w, h), LAMBDA p : IsBoundaryPixel(m, w, p[2] * w + p[1]))

\* a source test that also looks at the four diagonal neighbours
IsWaterFrontSourceEightNeighbours(m, w, index) ==
  /\ m[index + 1] = TRUE
  /\ \E j \in {-1, 0, 1}, i \in {-1, 0, 1} : m[(index + j * w + i) + 1] = FALSE

\* SetDistanceToBoundary's test of the pixel at index: a source of the wave
IsWaterFrontSource(m, w, index) ==
  /\ m[index + 1] = TRUE
  /\ \/ m[(index - 1) + 1] = FALSE
     \/ m[(index + 1) + 1] = FALSE
     \/ m[(index - w) + 1] = FALSE
     \/ m[(index + w) + 1] = FALSE

\* priority_queue<pair<float, pair<int, int> > >: a node is pushed as
\* (-score, (x, y)); top() is the greatest pair, that is the least score
\* and, among equal scores, the greatest (x, y)
NodeLess(e, f) ==
  \/ ScoreLess(f.score, e.score)
  \/ /\ e.score = f.score
     /\ \/ e.x < f.x
        \/ e.x = f.x /\ e.y < f.y
Top(queue) == CHOOSE e \in queue : \A f \in queue \ {e} : NodeLess(f, e)

\* the pixels one node of the wave improves, with their new scores
Improved(d, m, w, node) ==
  { [score |-> ScoreAdd(node.score, StepNorm(i, j)), x |-> node.x + i, y |-> node.y + j] :
      <<i, j>> \in { ij \in {-1, 0, 1} \X {-1, 0, 1} :
        /\ ~(ij[1] = 0 /\ ij[2] = 0)
        /\ m[((node.y + ij[2]) * w + (node.x + ij[1])) + 1]
        /\ ScoreLess(ScoreAdd(node.score, StepNorm(ij[1], ij[2])),
                     d[((node.y + ij[2]) * w + (node.x + ij[1])) + 1]) } }

CallFindBoundary ==
  /\ door_pc = "mask"
  /\ boundary' = FindBoundary(frame_size[1], frame_size[2], mask)
  /\ door_pc' = "boundary"
  /\ UNCHANGED <<panoVars, visVars, stageVars, clusterVars, rangeVars, frame_size, mask,
                 distance_to_boundary, water_front>>

\* lines 241-258: resize with FLT_MAX, then set and push the sources
SeedWaterFront ==
  /\ door_pc = "boundary"
  /\ LET w == frame_size[1]
         h == frame_size[2]
         sources == { p \in (1..(w - 2)) \X (1..(h - 2)) :
                        IsWaterFrontSource(mask, w, p[2] * w + p[1]) }
     IN  /\ distance_to_boundary' =
               [index1 \in 1..(w * h) |->
                  IF <<(index1 - 1) % w, (index1 - 1) \div w>> \in sources
                  THEN <<0, 0>> ELSE FltMax]
         /\ water_front' = { [score |-> <<0, 0>>, x |-> p[1], y |-> p[2]] : p \in sources }
  /\ door_pc' = "water_front"
  /\ UNCHANGED <<panoVars, visVars, stageVars, clusterVars, rangeVars, frame_size, mask, boundary>>

\* one iteration of "while (!water_front.empty())"
ExpandWaterFront ==
  /\ door_pc = "water_front"
  /\ water_front # {}
  /\ \E w \in {frame_size[1]}, node \in {Top(water_front)} :
     \E improved \in {Improved(distance_to_boundary, mask, w, node)} :
         /\ distance_to_boundary' =
               [index1 \in 1..Len(distance_to_boundary) |->
                  IF \E n \in improved : n.y * w + n.x = index1 - 1
                  THEN (CHOOSE n \in improved : n.y * w + n.x = index1 - 1).score
                  ELSE distance_to_boundary[index1]]
         /\ water_front' = (water_front \ {node}) \cup improved
  /\ UNCHANGED <<panoVars, visVars, stageVars, clusterVars, rangeVars, frame_size, mask, boundary, door_pc>>

\* the loop ends on the empty queue
ReturnDistanceToBoundary ==
  /\ door_pc = "water_front"
  /\ water_front = {}
  /\ door_pc' = "distance"
  /\ UNCHANGED <<panoVars, visVars, stageVars, clusterVars, rangeVars, frame_size, mask, boundary, distance_to_boundary,
                 water_front>>

FieldInit ==
  /\ PanoramaUnused
  /\ VisUnused
  /\ frame_size = <<MaxSide, MaxSide>>
  /\ mask \in Masks(MaxSide, MaxSide)
  /\ boundary = << >>
  /\ distance_to_boundary = << >>
  /\ water_front = {}
  /\ door_pc = "mask"
  /\ ClusterUnused
  /\ RangeUnused
  /\ StageUnused

FieldNext ==
  \/ CallFindBoundary
  \/ SeedWaterFront
  \/ ExpandWaterFront
  \/ ReturnDistanceToBoundary

FieldSpec == FieldInit /\ [][FieldNext]_vars

\* ------------------------------------------------------------------------
\* Properties of the distance field (checked under FieldSpec)
\* ------------------------------------------------------------------------
Range(seq) == {seq[k] : k \in 1..Len(seq)}
PixelIndex(p) == p[2] * frame_size[1] + p[1]
MaskPixels ==
  { p \in (0..(frame_size[1] - 1)) \X (0..(frame_size[2] - 1)) : mask[PixelIndex(p) + 1] }
EightAdjacent(p, q) ==
  p # q /\ Abs(p[1] - q[1]) <= 1 /\ Abs(p[2] - q[2]) <= 1
FourAdjacent(p, q) == Abs(p[1] - q[1]) + Abs(p[2] - q[2]) = 1
\* 1 for an axis-aligned step, sqrt(2) for a diagonal one
StepCost(p, q) == IF p[1] = q[1] \/ p[2] = q[2] THEN <<1, 0>> ELSE <<0, 1>>
DistanceAt(p) == distance_to_boundary[PixelIndex(p) + 1]

\* C12: after the distance field is computed on a mask with a false
\* one-pixel border, a mask pixel has distance 0 exactly when it is a
\* boundary pixel (a mask pixel with a non-mask pixel among its four
\* neighbours, the pixels FindBoundary reports), every other mask pixel has
\* a strictly positive distance, and the distances of two 8-adjacent mask
\* pixels differ by at most the norm of the step between them.
C12_ZeroOnBoundaryAndLipschitz ==
  door_pc = "distance" =>
    /\ \A p \in MaskPixels :
         /\ DistanceAt(p) = <<0, 0>> <=> p \in Range(boundary)
         /\ p \in Range(boundary)
              <=> \E q \in (0..(frame_size[1] - 1)) \X (0..(frame_size[2] - 1)) :
                    FourAdjacent(p, q) /\ q \notin MaskPixels
         /\ p \notin Range(boundary) => ScoreLess(<<0, 0>>, DistanceAt(p))
    /\ \A p \in MaskPixels, q \in MaskPixels :
         EightAdjacent(p, q) =>
           ~ScoreLess(ScoreAdd(DistanceAt(p), StepCost(p, q)), DistanceAt(q))

\* a computed field with a mask pixel that touches a non-mask pixel only
\* diagonally (so it is no boundary pixel), and a pixel at distance sqrt(2)
C12_Witness ==
  /\ door_pc = "distance"
  /\ \E p \in MaskPixels :
       /\ p \notin Range(boundary)
       /\ <<p[1] - 1, p[2] - 1>> \notin MaskPixels
       /\ DistanceAt(p) = <<1, 0>>
  /\ \E p \in MaskPixels : DistanceAt(p) = <<0, 1>>

\* the multi-source shortest-path distance from the set of sources, by
\* relaxing every pixel against its eight neighbours until nothing changes
ScoreMin(S) == CHOOSE s \in S : \A t \in S : ~ScoreLess(t, s)
RelaxAll(D) ==
  [p \in MaskPixels |->
     ScoreMin({D[p]} \cup { ScoreAdd(D[q], StepCost(q, p)) :
                              q \in {r \in MaskPixels : EightAdjacent(r, p)} })]
RECURSIVE ShortestPaths(_, _, _)
ShortestPaths(D, relaxed, rounds) ==
  IF rounds = 0 \/ relaxed = D THEN D
  ELSE ShortestPaths(relaxed, RelaxAll(relaxed), rounds - 1)
ReferenceDistance ==
  LET sources == [p \in MaskPixels |-> IF p \in Range(boundary) THEN <<0, 0>> ELSE FltMax]
  IN  ShortestPaths(sources, RelaxAll(sources), frame_size[1] * frame_size[2])

\* C13: the computed field is the multi-source shortest-path distance: for
\* every mask pixel the least length of an 8-connected path through mask
\* pixels from a boundary pixel (1 per axis-aligned step, sqrt(2) per
\* diagonal step); every pixel outside the mask keeps the sentinel.
C13_FieldIsShortestPath ==
  door_pc = "distance" =>
    /\ \E reference \in {ReferenceDistance} :
         \A p \in MaskPixels : DistanceAt(p) = reference[p]
    /\ \A index1 \in 1..Len(mask) : ~mask[index1] => distance_to_boundary[index1] = FltMax

\* a computed field where a stale entry was expanded: pixel p is no source
\* and has the sources (x+1, y+1) and (x+1, y); the former is popped first
\* and pushes p with sqrt(2), the latter then improves p to 1
C13_Witness ==
  /\ door_pc = "distance"
  /\ \E p \in MaskPixels :
       /\ p \notin Range(boundary)
       /\ <<p[1] + 1, p[2] + 1>> \in Range(boundary)
       /\ <<p[1] + 1, p[2]>> \in Range(boundary)
       /\ DistanceAt(p) = <<1, 0>>
  /\ \E p \in MaskPixels : DistanceAt(p) = <<0, 1>>
  /\ \E index1 \in 1..Len(mask) : ~mask[index1]

\* ------------------------------------------------------------------------
\* Cluster, Merge and ClusterMerge (door_detection.cc)
\* ------------------------------------------------------------------------
kTimesCluster == 10        \* "const int kTimes = 10" of Cluster
kTimesClusterMerge == 5    \* "const int kTimes = 5" of ClusterMerge
kInvalid == -1

\* kMergeThreshold = 0.5 as a quotient in units of 1/WDen
kMergeThreshold == Quot(WDen, 2)

\* numeric_limits<float>::max() among the quotients: above every distance
FloatMax == Quot(1, 0)
\* "<" of two float quotients (denominators are never negative)
QuotLess(p, q) == p[1] * q[2] < q[1] * p[2]

\* the boundary points that the candidates see
VisiblePoints == {0, 1}

\* what AssociateWeightToVisibility leaves for a subsampled pixel: nothing,
\* or positive weights that sum to 1 over the boundary points it sees
CandidateSignatures ==
  { sig \in Signatures :
      /\ \A k \in 1..Len(sig) : sig[k][1] \in VisiblePoints /\ sig[k][2] > 0
      /\ sig # << >> => WeightSum(sig) = WDen }

\* 0-based vector access
At(vec, i) == vec[i + 1]

\* the loop with "<=" for "<": among the closest centers the last one wins
RECURSIVE IdentifyClosestLastFrom(_, _, _, _, _, _)
IdentifyClosestLastFrom(wv, index, cs, i, closest_index, closest_distance) ==
  IF ~(i < Len(cs)) THEN closest_index
  ELSE IF ~QuotLess(closest_distance, VisibilityDistance(At(wv, index), At(wv, At(cs, i))))
    THEN IdentifyClosestLastFrom(wv, index, cs, i + 1, i,
                                 VisibilityDistance(At(wv, index), At(wv, At(cs, i))))
  ELSE IdentifyClosestLastFrom(wv, index, cs, i + 1, closest_index, closest_distance)

\* the loop of IdentifyClosestCenterIndex from i on
RECURSIVE IdentifyClosestFrom(_, _, _, _, _, _)
IdentifyClosestFrom(wv, index, cs, i, closest_index, closest_distance) ==
  IF ~(i < Len(cs)) THEN closest_index
  ELSE IF QuotLess(VisibilityDistance(At(wv, index), At(wv, At(cs, i))), closest_distance)
    THEN IdentifyClosestFrom(wv, index, cs, i + 1, i,
                             VisibilityDistance(At(wv, index), At(wv, At(cs, i))))
  ELSE IdentifyClosestFrom(wv, index, cs, i + 1, closest_index, closest_distance)

IdentifyClosestCenterIndex(wv, index, cs) ==
  IdentifyClosestFrom(wv, index, cs, 0, kInvalid, FloatMax)

\* an assignment without "if (weighted_visibility[p].empty()) continue"
AssignEveryCandidate(wv, cs) ==
  [c \in 1..Len(cs) |->
     SelectSeq([i \in 1..Len(wv) |-> i - 1],
               LAMBDA i : IdentifyClosestCenterIndex(wv, i, cs) = c - 1)]

\* lines 682-689 of Cluster: every candidate with a signature is pushed, in
\* the order of the candidates, on the cluster of its closest center
AssignToCenters(wv, cs) ==
  [c \in 1..Len(cs) |->
     SelectSeq([i \in 1..Len(wv) |-> i - 1],
               LAMBDA i : At(wv, i) # << >> /\ IdentifyClosestCenterIndex(wv, i, cs) = c - 1)]

\* "distance * distance" of members i < j of a cluster (positions, 0-based),
\* as the numerator over the common denominator 4 * WDen * WDen
SquaredDistance(wv, cluster, i, j) ==
  VisibilityDistance(At(wv, At(cluster, i)), At(wv, At(cluster, j)))[1]
    * VisibilityDistance(At(wv, At(cluster, i)), At(wv, At(cluster, j)))[1]

\* distances[i] after the two nested loops of UpdateCenters: the terms of
\* the members j, j + 1, ...
RECURSIVE SumOfSquaredDistances(_, _, _, _)
SumOfSquaredDistances(wv, cluster, i, j) ==
  IF ~(j < Len(cluster)) THEN 0
  ELSE (IF j = i THEN 0
        ELSE IF i < j THEN SquaredDistance(wv, cluster, i, j)
        ELSE SquaredDistance(wv, cluster, j, i))
       + SumOfSquaredDistances(wv, cluster, i, j + 1)

\* min_element over distances: the scan from position i on, which keeps the
\* first smallest element
RECURSIVE MinElementFrom(_, _, _, _, _)
MinElementFrom(wv, cluster, i, min_index, min_value) ==
  IF ~(i < Len(cluster)) THEN min_index
  ELSE IF SumOfSquaredDistances(wv, cluster, i, 0) < min_value
    THEN MinElementFrom(wv, cluster, i + 1, i, SumOfSquaredDistances(wv, cluster, i, 0))
  ELSE MinElementFrom(wv, cluster, i + 1, min_index, min_value)

\* centers->resize(clusters.size()) value-initializes every center to 0; an
\* empty cluster is skipped and keeps that 0
UpdateCenters(wv, cl) ==
  [c \in 1..Len(cl) |->
     IF cl[c] = << >> THEN 0
     ELSE At(cl[c], MinElementFrom(wv, cl[c], 1, 0, SumOfSquaredDistances(wv, cl[c], 0, 0)))]

\* the distance matrix of Merge (rows and columns 0-based): filled for i < j
CenterDistances(wv, cs) ==
  [i \in 0..(Len(cs) - 1) |->
     [j \in 0..(Len(cs) - 1) |->
        IF i < j THEN VisibilityDistance(At(wv, At(cs, i)), At(wv, At(cs, j)))
        ELSE FloatMax]]

\* the pairs (i, j), i < j, in the order the two nested loops visit them
ScanPairs(n) ==
  SelectSeq([k \in 1..(n * n) |-> <<(k - 1) \div n, (k - 1) % n>>],
            LAMBDA ij : ij[1] < ij[2])

\* the search for the closest pair from the k-th visited pair on
\* ("pair<int, int> closest_pair;" starts as (0, 0), which is read only
\* after a pair below the threshold has replaced it)
RECURSIVE ClosestPairFrom(_, _, _, _, _)
ClosestPairFrom(matrix, pairs, k, closest_pair, closest_distance) ==
  IF k > Len(pairs) THEN [pair |-> closest_pair, distance |-> closest_distance]
  ELSE IF QuotLess(matrix[pairs[k][1]][pairs[k][2]], closest_distance)
    THEN ClosestPairFrom(matrix, pairs, k + 1, pairs[k],
                         matrix[pairs[k][1]][pairs[k][2]])
  ELSE ClosestPairFrom(matrix, pairs, k + 1, closest_pair, closest_distance)

\* an invalidation of the two columns only
InvalidateColumns(matrix, pair) ==
  [i \in DOMAIN matrix |->
     [j \in DOMAIN matrix |->
        IF j \in {pair[1], pair[2]} THEN FloatMax ELSE matrix[i][j]]]

\* "Avoid merging these 2 clusters any more"
Invalidate(matrix, pair) ==
  [i \in DOMAIN matrix |->
     [j \in DOMAIN matrix |->
        IF i \in {pair[1], pair[2]} \/ j \in {pair[1], pair[2]}
        THEN FloatMax ELSE matrix[i][j]]]

\* a test that merges every pair, however far apart
BelowThresholdAlways(distance) == QuotLess(distance, FloatMax)

\* "closest_distance < kMergeThreshold"
BelowThreshold(distance) == QuotLess(distance, kMergeThreshold)

\* a merge that erases the second cluster of a pair without inserting it
InsertNothing(cl, pairs) == cl

\* "cluster0.insert(cluster0.end(), cluster1.begin(), cluster1.end())" for
\* every pair, in the order of pairs_to_merge
RECURSIVE InsertClusters(_, _)
InsertClusters(cl, pairs) ==
  IF pairs = << >> THEN cl
  ELSE InsertClusters([cl EXCEPT ![pairs[1][1] + 1] = @ \o cl[pairs[1][2] + 1]],
                      Tail(pairs))

\* sort(erase_ids.rbegin(), erase_ids.rend()): descending
RECURSIVE SortDescending(_)
SortDescending(ids) ==
  IF ids = << >> THEN << >>
  ELSE LET k == CHOOSE a \in 1..Len(ids) : \A b \in 1..Len(ids) : ids[a] >= ids[b]
       IN  <<ids[k]>> \o SortDescending(SubSeq(ids, 1, k - 1) \o SubSeq(ids, k + 1, Len(ids)))

\* clusters->erase(clusters->begin() + erase_ids[i]) for every i
RECURSIVE EraseClusters(_, _)
EraseClusters(cl, erase_ids) ==
  IF erase_ids = << >> THEN cl
  ELSE EraseClusters(SubSeq(cl, 1, erase_ids[1]) \o SubSeq(cl, erase_ids[1] + 2, Len(cl)),
                     Tail(erase_ids))

MergedClusters(cl, pairs) ==
  EraseClusters(InsertClusters(cl, pairs),
                SortDescending([k \in 1..Len(pairs) |-> pairs[k][2]]))

\* DetectDoors, lines 953-961: the candidates with a signature, shuffled,
\* then resize(kInitialClusterNum), which pads with 0
Shuffles(S) ==
  { f \in [1..Cardinality(S) -> S] : \A a, b \in 1..Cardinality(S) : f[a] = f[b] => a = b }
Resize(vec, n) == [k \in 1..n |-> IF k <= Len(vec) THEN vec[k] ELSE 0]
InitialCenters(wv) ==
  { Resize(f, InitialClusterNum) :
      f \in Shuffles({i \in 0..(Len(wv) - 1) : At(wv, i) # << >>}) }

\* a loop control without "if (!merged) break"
NextRoundNoBreak(ret, t) ==
  IF t + 1 < kTimesClusterMerge
  THEN [t |-> t + 1, pc |-> "Cluster"]
  ELSE [t |-> t + 1, pc |-> "FinalCluster"]

\* the loop control of ClusterMerge after Merge has returned ret in round t:
\* "if (!merged) break;" then "++t" and "t < kTimes"
NextRound(ret, t) ==
  IF ~ret THEN [t |-> t, pc |-> "FinalCluster"]
  ELSE IF t + 1 < kTimesClusterMerge
    THEN [t |-> t + 1, pc |-> "Cluster"]
  ELSE [t |-> t + 1, pc |-> "FinalCluster"]

\* one iteration of Cluster; the first one starts the call, the last one
\* returns to ClusterMerge
ClusterIteration ==
  /\ merge_pc \in {"Cluster", "FinalCluster"}
  /\ \E assigned \in {AssignToCenters(weighted_visibility, centers)} :
       /\ clusters' = assigned
       /\ centers' = UpdateCenters(weighted_visibility, assigned)
  /\ calls' = IF cluster_t = 0 THEN Append(calls, [op |-> "Cluster"]) ELSE calls
  /\ IF cluster_t + 1 < kTimesCluster
     THEN cluster_t' = cluster_t + 1 /\ merge_pc' = merge_pc
     ELSE cluster_t' = 0 /\ merge_pc' = (IF merge_pc = "Cluster" THEN "Merge" ELSE "done")
  /\ UNCHANGED <<panoVars, visVars, stageVars, fieldVars, rangeVars, weighted_visibility, round_t, merged,
                 distances, pairs_to_merge>>

\* lines 703-717 of Merge: the distance matrix of the centers
MergeBegin ==
  /\ merge_pc = "Merge"
  /\ distances' = CenterDistances(weighted_visibility, centers)
  /\ pairs_to_merge' = << >>
  /\ merge_pc' = "MergeLoop"
  /\ UNCHANGED <<panoVars, visVars, stageVars, fieldVars, rangeVars, weighted_visibility, centers, clusters,
                 round_t, cluster_t, merged, calls>>

\* one iteration of the "while (true)" loop of Merge
MergeLoop ==
  /\ merge_pc = "MergeLoop"
  /\ \E closest \in {ClosestPairFrom(distances, ScanPairs(Len(centers)), 1,
                                      <<0, 0>>, FloatMax)} :
       IF BelowThreshold(closest.distance)
       THEN /\ pairs_to_merge' = Append(pairs_to_merge, closest.pair)
            /\ distances' = Invalidate(distances, closest.pair)
            /\ merge_pc' = merge_pc
       ELSE /\ merge_pc' = "MergeUpdate"
            /\ UNCHANGED <<distances, pairs_to_merge>>
  /\ UNCHANGED <<panoVars, visVars, stageVars, fieldVars, rangeVars, weighted_visibility, centers, clusters,
                 round_t, cluster_t, merged, calls>>

\* lines 745-765 of Merge, and the loop control of ClusterMerge after it
MergeReturn ==
  /\ merge_pc = "MergeUpdate"
  /\ IF pairs_to_merge = << >>
     THEN /\ merged' = FALSE
          /\ UNCHANGED <<centers, clusters>>
     ELSE /\ merged' = TRUE
          /\ \E merged_clusters \in {MergedClusters(clusters, pairs_to_merge)} :
               /\ clusters' = merged_clusters
               /\ centers' = UpdateCenters(weighted_visibility, merged_clusters)
  /\ calls' = Append(calls, [op |-> "Merge", ret |-> pairs_to_merge # << >>,
                             pairs |-> pairs_to_merge])
  /\ round_t' = NextRound(pairs_to_merge # << >>, round_t).t
  /\ merge_pc' = NextRound(pairs_to_merge # << >>, round_t).pc
  /\ distances' = << >>
  /\ pairs_to_merge' = << >>
  /\ UNCHANGED <<panoVars, visVars, stageVars, fieldVars, rangeVars, weighted_visibility, cluster_t>>

ClusterInit ==
  /\ PanoramaUnused
  /\ VisUnused
  /\ FieldUnused
  /\ RangeUnused
  /\ StageUnused
  /\ weighted_visibility \in [1..MaxCandidates -> CandidateSignatures]
  /\ centers \in InitialCenters(weighted_visibility)
  /\ clusters = << >>
  /\ round_t = 0
  /\ cluster_t = 0
  /\ merged = FALSE
  /\ merge_pc = "Cluster"
  /\ calls = << >>
  /\ distances = << >>
  /\ pairs_to_merge = << >>

ClusterNext ==
  \/ ClusterIteration
  \/ MergeBegin
  \/ MergeLoop
  \/ MergeReturn

ClusterSpec == ClusterInit /\ [][ClusterNext]_vars

\* ClusterMerge is straight-line code in one thread: whenever it has a next
\* step, it takes it
ClusterFairSpec == ClusterSpec /\ WF_vars(ClusterNext)

\* ------------------------------------------------------------------------
\* Properties of Cluster, Merge and ClusterMerge (checked under ClusterSpec)
\* ------------------------------------------------------------------------
Signature(i) == weighted_visibility[i + 1]
Candidates == 0..(Len(weighted_visibility) - 1)
Members(cluster) == {cluster[k] : k \in 1..Len(cluster)}
LastCall == calls[Len(calls)]
\* VisibilityDistance of the candidates i and j
DistanceBetween(i, j) == VisibilityDistance(Signature(i), Signature(j))
\* the state right after a call of Cluster has returned
AfterCluster == merge_pc \in {"Merge", "done"}
\* the state right after a call of Merge has returned
AfterMerge ==
  /\ merge_pc \in {"Cluster", "FinalCluster"}
  /\ cluster_t = 0
  /\ calls # << >>

\* C14: when every pair of current centers has VisibilityDistance >=
\* kMergeThreshold (0.5), a call of Merge returns false and leaves centers
\* and clusters as they were; Merge returns true exactly when it merged at
\* least one pair of clusters.
C14_MergeFrame ==
  [][merge_pc = "MergeUpdate" =>
       /\ (\A i \in 1..Len(centers), j \in 1..Len(centers) :
             i < j => 2 * VisibilityDistance(Signature(centers[i]), Signature(centers[j]))[1]
                        >= VisibilityDistance(Signature(centers[i]), Signature(centers[j]))[2]
                             * WDen)
            => (merged' = FALSE /\ centers' = centers /\ clusters' = clusters)
       /\ merged' = TRUE
            <=> /\ Len(clusters') < Len(clusters)
                /\ \E i \in 1..Len(clusters), j \in 1..Len(clusters) :
                      /\ i < j
                      /\ \E c \in 1..Len(clusters') :
                            clusters'[c] = clusters[i] \o clusters[j]
       /\ merged' = FALSE <=> (centers' = centers /\ clusters' = clusters)]_vars

\* Merge has returned false on two centers that are far apart
C14_Witness ==
  /\ AfterMerge
  /\ LastCall.op = "Merge" /\ ~LastCall.ret
  /\ ~merged
  /\ Len(centers) >= 2
  /\ centers[1] # centers[2]
  /\ \A c \in 1..Len(clusters) : clusters[c] # << >>

\* the calls made so far, as the word of their names
IsCluster(k) == calls[k].op = "Cluster"
IsMerge(k) == calls[k].op = "Merge"
MergeCalls == {k \in 1..Len(calls) : IsMerge(k)}

Occurrences(cluster, i) == Cardinality({k \in 1..Len(cluster) : cluster[k] = i})

\* the clusters that a step leaves are the assignment of the candidates to
\* the closest of the centers that the step started with
AssignedToClosestCenter ==
  /\ Len(clusters') = Len(centers)
  /\ \A c \in 1..Len(clusters') : Members(clusters'[c]) \subseteq Candidates
  /\ \A i \in Candidates :
       IF Signature(i) = << >>
       THEN \A c \in 1..Len(clusters') : Occurrences(clusters'[c], i) = 0
       ELSE \E c \in 1..Len(centers) :
              /\ Occurrences(clusters'[c], i) = 1
              /\ \A k \in 1..Len(centers) :
                   /\ k # c => Occurrences(clusters'[k], i) = 0
                   /\ ~QuotLess(DistanceBetween(i, centers[k]),
                                DistanceBetween(i, centers[c]))
                   /\ k < c => QuotLess(DistanceBetween(i, centers[c]),
                                        DistanceBetween(i, centers[k]))

\* C19: in every iteration of Cluster each candidate with a non-empty
\* signature is put in exactly one cluster, the one of the center with the
\* minimum VisibilityDistance to it (the lowest center index among ties),
\* and candidates with an empty signature are put in no cluster: the clusters
\* partition the candidates that have a signature.
C19_IterationAssignsToClosestCenter ==
  [][(merge_pc \in {"Cluster", "FinalCluster"}) => AssignedToClosestCenter]_vars

\* a later iteration of Cluster has run on candidates of which one has no
\* signature and another is as close to the second center as to its own
C19_Witness ==
  /\ merge_pc = "Cluster"
  /\ cluster_t >= 2
  /\ \E i \in Candidates : Signature(i) = << >>
  /\ Len(clusters) >= 2
  /\ \E i \in Members(clusters[1]) :
        DistanceBetween(i, centers[1]) = DistanceBetween(i, centers[2])

\* the sum, over the members at the positions k, k + 1, ... of a cluster
\* other than the candidate i, of the squared VisibilityDistance to i
\* (numerators over the common denominator 4 * WDen * WDen)
RECURSIVE SumOfSquaresTo(_, _, _)
SumOfSquaresTo(cluster, i, k) ==
  IF k > Len(cluster) THEN 0
  ELSE (IF cluster[k] = i THEN 0
        ELSE DistanceBetween(i, cluster[k])[1] * DistanceBetween(i, cluster[k])[1])
       + SumOfSquaresTo(cluster, i, k + 1)

\* the candidate i is a member of the cluster and no member has a smaller
\* sum of squared distances to the other members
IsMedoid(cluster, i) ==
  /\ i \in Members(cluster)
  /\ \A m \in Members(cluster) :
       SumOfSquaresTo(cluster, i, 1) <= SumOfSquaresTo(cluster, m, 1)

\* Cluster has just returned, or Merge has just returned true
AfterClusterOrMerging ==
  \/ AfterCluster
  \/ AfterMerge /\ LastCall.op = "Merge" /\ LastCall.ret

\* C20: after every call of Cluster and every call of Merge that merged,
\* the center of each cluster is a member of that cluster and a medoid of
\* it: it minimizes, over the members, the sum of squared VisibilityDistance
\* to the other members.
C20_CenterIsMedoidOfItsCluster ==
  AfterClusterOrMerging =>
    /\ Len(centers) = Len(clusters)
    /\ \A c \in 1..Len(clusters) : IsMedoid(clusters[c], centers[c])

\* the center indexes of the first k pairs selected so far
SelectedCenters(k) ==
  UNION {{pairs_to_merge[n][1], pairs_to_merge[n][2]} : n \in 1..k}
\* VisibilityDistance of the centers i and j (0-based) is below 0.5
CentersAreClose(i, j) ==
  2 * DistanceBetween(At(centers, i), At(centers, j))[1]
    < WDen * DistanceBetween(At(centers, i), At(centers, j))[2]
PairDistance(n) ==
  DistanceBetween(At(centers, pairs_to_merge[n][1]), At(centers, pairs_to_merge[n][2]))

C22_InitialCentersDistinctAndSeen ==
  calls = << >> =>
    /\ Len(centers) = InitialClusterNum
    /\ \A a, b \in 1..Len(centers) : centers[a] = centers[b] => a = b
    /\ \A a \in 1..Len(centers) : Signature(centers[a]) # << >>

\* in how many of the clusters of cl the candidate i occurs, with repetition
RECURSIVE TotalOccurrences(_, _)
TotalOccurrences(cl, i) ==
  IF cl = << >> THEN 0 ELSE Occurrences(cl[1], i) + TotalOccurrences(Tail(cl), i)

\* what a merging step leaves, against the clusters it started with
MergedShape ==
  /\ Len(clusters') = Len(clusters) - Len(pairs_to_merge)
  /\ Len(centers') = Len(clusters')
  /\ \A n \in 1..Len(pairs_to_merge) :
       \E c \in 1..Len(clusters') :
         \A i \in Candidates :
           Occurrences(clusters'[c], i)
             = Occurrences(At(clusters, pairs_to_merge[n][1]), i)
               + Occurrences(At(clusters, pairs_to_merge[n][2]), i)
  /\ \A i \in Candidates :
       TotalOccurrences(clusters, i) >= 1 => TotalOccurrences(clusters', i) = 1

\* C29: a Merge that selects m >= 1 pairs out of k clusters leaves exactly
\* k - m clusters and as many centers; each merged cluster is the union of
\* the two clusters of its pair, and every candidate that was in a cluster
\* is in exactly one cluster afterwards.
C29_MergeKeepsPartition ==
  [][(merge_pc = "MergeUpdate" /\ pairs_to_merge # << >>) => MergedShape]_vars

\* a Merge has selected a pair of two clusters that both have members
C29_Witness ==
  /\ merge_pc = "MergeUpdate"
  /\ pairs_to_merge # << >>
  /\ Len(clusters) = InitialClusterNum
  /\ At(clusters, pairs_to_merge[1][1]) # << >>
  /\ At(clusters, pairs_to_merge[1][2]) # << >>

\* ------------------------------------------------------------------------
\* SetRanges (door_detection.cc)
\* ------------------------------------------------------------------------
kMaxResolution == 600

\* spans of the bulk of the sweep points along an axis, and the average
\* distances, in one length unit
BulkSpans == {4, 12, 24}
AverageDistances == {1, 2}

\* the coordinates of NumPoints sweep points on one axis, in the order of the
\* sweeps: k points at 3 * span, k points at 0, the others in turn at
\* 2 * span and at span
PointCoordinates(k, span) ==
  [i \in 1..NumPoints |->
     IF i <= k THEN 3 * span
     ELSE IF i <= 2 * k THEN 0
     ELSE IF i % 2 = 1 THEN 2 * span
     ELSE span]
Coordinates == { PointCoordinates(k, span) : k \in 0..MaxOutliers, span \in BulkSpans }

\* sums, differences and quotients of exact quotients
QuotPlus(p, q) == Quot(p[1] * q[2] + q[1] * p[2], p[2] * q[2])
QuotMinus(p, q) == Quot(p[1] * q[2] - q[1] * p[2], p[2] * q[2])
QuotOver(p, q) == Quot(p[1] * q[2], p[2] * q[1])
\* round() of a quotient with a positive denominator: halves away from zero
RoundQuot(q) == Sign(q[1]) * ((2 * Abs(q[1]) + q[2]) \div (2 * q[2]))

\* sort(histogram[a].begin(), histogram[a].end()): the ascending arrangement
SortAscending(h) ==
  [i \in 1..Len(h) |->
     CHOOSE v \in {h[j] : j \in 1..Len(h)} :
       /\ Cardinality({j \in 1..Len(h) : h[j] < v}) < i
       /\ i <= Cardinality({j \in 1..Len(h) : h[j] <= v})]

\* the positions (0-based) of pos_5 and pos_95
Pos5(h) == (Len(h) * 1) \div 100
Pos95(h) == (Len(h) * 99) \div 100

\* what the position pos of an ascending vector can hold after
\* nth_element(begin, begin + nth, end): the nth smallest element at nth,
\* and the smaller (larger) elements, in an unspecified order, before
\* (after) it
NthElementLeaves(sorted, nth, pos) ==
  IF pos = nth THEN {At(sorted, nth)}
  ELSE IF pos < nth THEN {At(sorted, i) : i \in 0..(nth - 1)}
  ELSE {At(sorted, i) : i \in (nth + 1)..(Len(sorted) - 1)}

\* the values that *pos_5 can have when diff is computed, after the second
\* nth_element has rearranged the vector around pos_95
Pos5Values(h) == NthElementLeaves(SortAscending(h), Pos95(h), Pos5(h))
Pos95Value(h) == At(SortAscending(h), Pos95(h))

\* lines 836-841: the range of an axis, with "margin = diff * 5 / 100"
RangeOf(pos_5, pos_95) ==
  <<QuotMinus(Quot(pos_5, 1), Quot((pos_95 - pos_5) * 5, 100)),
    QuotPlus(Quot(pos_95, 1), Quot((pos_95 - pos_5) * 5, 100))>>

\* "static_cast<int>(round((ranges[a][1] - ranges[a][0]) / unit))"
Resolution(range, unit) == RoundQuot(QuotOver(QuotMinus(range[2], range[1]), unit))

\* lines 853-856: both operands of "max_current_resolution / kMaxResolution"
\* are int, so the quotient is truncated before it scales the unit
CappedUnit(unit, max_current_resolution) ==
  IF kMaxResolution < max_current_resolution
  THEN Quot(unit[1] * (max_current_resolution \div kMaxResolution), unit[2])
  ELSE unit

\* the frame that SetRanges leaves for the ranges of the three axes
FrameOf(ranges, average_distance_) ==
  [ranges |-> ranges,
   unit |-> CappedUnit(Quot(average_distance_, 50),
                       Max(Resolution(ranges[1], Quot(average_distance_, 50)),
                           Resolution(ranges[2], Quot(average_distance_, 50)))),
   size |-> [a \in 1..3 |->
              Resolution(ranges[a],
                         CappedUnit(Quot(average_distance_, 50),
                                    Max(Resolution(ranges[1], Quot(average_distance_, 50)),
                                        Resolution(ranges[2], Quot(average_distance_, 50)))))]]

SetRanges ==
  /\ ranges_pc = "call"
  /\ \E x \in Pos5Values(histogram[1]), y \in Pos5Values(histogram[2]),
        z \in Pos5Values(histogram[3]) :
       frame' = FrameOf(<<RangeOf(x, Pos95Value(histogram[1])),
                          RangeOf(y, Pos95Value(histogram[2])),
                          RangeOf(z, Pos95Value(histogram[3]))>>,
                        sweep_average_distance)
  /\ ranges_pc' = "returned"
  /\ UNCHANGED <<panoVars, visVars, stageVars, fieldVars, clusterVars, histogram,
                 sweep_average_distance>>

RangeInit ==
  /\ PanoramaUnused
  /\ VisUnused
  /\ FieldUnused
  /\ ClusterUnused
  /\ StageUnused
  /\ histogram \in [1..3 -> Coordinates]
  /\ sweep_average_distance \in AverageDistances
  /\ frame = [ranges |-> << >>, unit |-> <<0, 0>>, size |-> << >>]
  /\ ranges_pc = "call"

RangeNext == SetRanges

RangeSpec == RangeInit /\ [][RangeNext]_vars

\* ------------------------------------------------------------------------
\* Properties of SetRanges (checked under RangeSpec)
\* ------------------------------------------------------------------------
\* the width (a = 0) or height (a = 1) of the raster before the cap
UncappedResolution(a) ==
  Resolution(At(frame.ranges, a), Quot(sweep_average_distance, 50))

\* C17: after SetRanges the frame raster is resolution-capped: for every
\* input whose uncapped width or height exceeds kMaxResolution (600),
\* max(size[0], size[1]) does not exceed kMaxResolution, up to the rounding
\* of the sizes (one raster cell).
C17_ResolutionCapped ==
  (/\ ranges_pc = "returned"
   /\ Max(UncappedResolution(0), UncappedResolution(1)) > kMaxResolution)
    => Max(At(frame.size, 0), At(frame.size, 1)) <= kMaxResolution + 1

\* the positions (0-based) in the ascending coordinates that may be read as
\* the p-th percentile: the rank n * p / 100 and the one below it
PercentileRanks(h, p) ==
  {(Len(h) * p) \div 100 - 1, (Len(h) * p) \div 100} \cap 0..(Len(h) - 1)
Percentiles(h, p) == {At(SortAscending(h), r) : r \in PercentileRanks(h, p)}

\* C18: for each axis a, SetRanges sets ranges[a][0] and ranges[a][1] to
\* the 5th and the 95th percentile of the coordinates of the sweep points
\* on that axis, lowered and raised by 5% of the difference of the two
\* percentiles.
C18_RangesFromFifthPercentiles ==
  ranges_pc = "returned" =>
    \A a \in 0..2 :
      \E p5 \in Percentiles(histogram[a + 1], 5), p95 \in Percentiles(histogram[a + 1], 95) :
        /\ QuotEq(At(frame.ranges, a)[1], Quot(100 * p5 - 5 * (p95 - p5), 100))
        /\ QuotEq(At(frame.ranges, a)[2], Quot(100 * p95 + 5 * (p95 - p5), 100))

\* ------------------------------------------------------------------------
\* SetMask (door_detection.cc)
\* ------------------------------------------------------------------------
kGoodFreeSpaceEvidence == 100

\* the evidence handed to SetMask: one value everywhere but at two pixels
EvidenceValues ==
  {kGoodFreeSpaceEvidence - 1, kGoodFreeSpaceEvidence, kGoodFreeSpaceEvidence + 1}
EvidenceFields(w, h) ==
  { [index1 \in 1..(w * h) |->
       IF index1 = first[1] THEN first[2]
       ELSE IF index1 = second[1] THEN second[2] ELSE background] :
      background \in EvidenceValues,
      first \in (1..(w * h)) \X EvidenceValues,
      second \in (1..(w * h)) \X EvidenceValues }

\* a threshold test that also accepts the threshold itself
ReachesGoodEvidence(evidence) == evidence >= kGoodFreeSpaceEvidence

\* "free_space_evidence[index] > kGoodFreeSpaceEvidence"
ExceedsGoodEvidence(evidence) == evidence > kGoodFreeSpaceEvidence

\* a border test that skips nothing
NeverOnFrameBorder(size, x, y) == FALSE

\* "if (y == 0 || y == frame.size[1] - 1 || x == 0 || x == frame.size[0] - 1)"
OnFrameBorder(size, x, y) ==
  y = 0 \/ y = size[2] - 1 \/ x = 0 \/ x = size[1] - 1

\* resize(free_space_evidence.size(), false), then the two loops
SetMask(size, evidence) ==
  [index1 \in 1..Len(evidence) |->
     \E y \in 0..(size[2] - 1), x \in 0..(size[1] - 1) :
       /\ y * size[1] + x = index1 - 1
       /\ ~OnFrameBorder(size, x, y)
       /\ ExceedsGoodEvidence(evidence[index1])]

CallSetMask ==
  /\ door_pc = "evidence"
  /\ mask' = SetMask(frame_size, free_space_evidence)
  /\ door_pc' = "mask"
  /\ UNCHANGED <<panoVars, visVars, clusterVars, rangeVars, free_space_evidence,
                 pathVars, sightVars, frame_size, boundary, distance_to_boundary,
                 water_front>>

MaskInit ==
  /\ PanoramaUnused
  /\ VisUnused
  /\ ClusterUnused
  /\ RangeUnused
  /\ frame_size = <<MaskSide + 1, MaskSide>>
  /\ free_space_evidence \in EvidenceFields(MaskSide + 1, MaskSide)
  /\ mask = << >>
  /\ boundary = << >>
  /\ distance_to_boundary = << >>
  /\ water_front = {}
  /\ door_pc = "evidence"
  /\ PathUnused
  /\ SightUnused

MaskNext == CallSetMask

MaskSpec == MaskInit /\ [][MaskNext]_vars

\* the evidence at the pixel (x, y)
EvidenceAt(x, y) == free_space_evidence[(y * frame_size[1] + x) + 1]
FramePixels == (0..(frame_size[1] - 1)) \X (0..(frame_size[2] - 1))
FrameBorder ==
  { p \in FramePixels :
      p[1] \in {0, frame_size[1] - 1} \/ p[2] \in {0, frame_size[2] - 1} }

\* C28: SetMask sets a pixel exactly when its evidence is strictly greater
\* than the threshold and it does not lie on the one-pixel border of the
\* frame: the border is false whatever its evidence, and evidence equal to
\* the threshold gives false.
C28_MaskIsThresholdedInterior ==
  (door_pc = "mask" /\ free_space_evidence # << >>) =>
    /\ Len(mask) = frame_size[1] * frame_size[2]
    /\ \A p \in FramePixels :
         mask[PixelIndex(p) + 1]
           <=> (EvidenceAt(p[1], p[2]) > 100 /\ p \notin FrameBorder)
    /\ \A p \in FrameBorder : ~mask[PixelIndex(p) + 1]
    /\ \A p \in FramePixels :
         EvidenceAt(p[1], p[2]) = 100 => ~mask[PixelIndex(p) + 1]

\* a mask made from evidence above the threshold on the border, equal to
\* the threshold at an interior pixel and above it at another one
C28_Witness ==
  /\ door_pc = "mask"
  /\ free_space_evidence # << >>
  /\ \E p \in FrameBorder : EvidenceAt(p[1], p[2]) > 100
  /\ \E p \in FramePixels \ FrameBorder : EvidenceAt(p[1], p[2]) = 100
  /\ \E p \in FramePixels \ FrameBorder : mask[PixelIndex(p) + 1]

\* ------------------------------------------------------------------------
\* FindShortestPaths, ForegroundPath and TraceBack (door_detection.cc)
\* ------------------------------------------------------------------------
\* "const float kInvalidScore = numeric_limits<float>::max()"
kInvalidScore == FltMax

\* lines 108-112 of FindShortestPaths
UnreachedNode == [current_score |-> kInvalidScore, previous_node |-> <<-1, -1>>]

\* weight * sqrt(i * i + j * j) for a weight a + b * sqrt(2)
WeightTimesNorm(weight, i, j) ==
  IF i * i + j * j = 1 THEN weight ELSE <<2 * weight[2], weight[1]>>

\* a test that also takes a score equal to the recorded one
ScoreImprovesOrTies(new_score, current_score) == ~ScoreLess(current_score, new_score)

\* "if (new_score < nodes->at(new_index).current_score)"
ScoreImproves(new_score, current_score) == ScoreLess(new_score, current_score)

\* a parent pointer that names the improved pixel itself
PreviousNodeSelf(node, xtmp, ytmp) == <<xtmp, ytmp>>

\* "nodes->at(new_index).previous_node = node.second"
PreviousNode(node, xtmp, ytmp) == <<node.x, node.y>>

\* the neighbours one popped node improves, with their new scores
Relaxed(nd, m, d, w, node) ==
  { [score |-> ScoreAdd(node.score, WeightTimesNorm(d[(node.y * w + node.x) + 1], i, j)),
     x |-> node.x + i, y |-> node.y + j] :
      <<i, j>> \in { ij \in {-1, 0, 1} \X {-1, 0, 1} :
        /\ ~(ij[1] = 0 /\ ij[2] = 0)
        /\ m[((node.y + ij[2]) * w + (node.x + ij[1])) + 1]
        /\ ScoreImproves(
             ScoreAdd(node.score,
                      WeightTimesNorm(d[(node.y * w + node.x) + 1], ij[1], ij[2])),
             nd[((node.y + ij[2]) * w + (node.x + ij[1])) + 1].current_score) } }

\* the loop of TraceBack from pixel, the path so far in path; the nodes do
\* not change, so a walk of more steps than there are nodes never ends
RECURSIVE TraceBackLoop(_, _, _, _, _, _)
TraceBackLoop(nd, w, start, pixel, path, fuel) ==
  IF pixel = start THEN [outcome |-> "returned", path |-> path]
  ELSE IF fuel = 0 THEN [outcome |-> "diverges", path |-> path]
  ELSE IF (pixel[2] * w + pixel[1]) \notin 0..(Len(nd) - 1)
       THEN [outcome |-> "undefined", path |-> Append(path, pixel)]
  ELSE TraceBackLoop(nd, w, start, nd[(pixel[2] * w + pixel[1]) + 1].previous_node,
                     Append(path, pixel), fuel - 1)

TraceBack(nd, w, start, target) ==
  IF nd[(target[2] * w + target[1]) + 1].current_score = kInvalidScore
  THEN [outcome |-> "returned", path |-> << >>]
  ELSE TraceBackLoop(nd, w, start, target, << >>, Len(nd) + 1)

\* the evidence of the frames handed on to the paths: above the threshold
\* on a rectangle of interior pixels with one pixel taken out and, for half
\* of the fields, on the whole one-pixel border of the frame
PathEvidence(w, h) ==
  { [index1 \in 1..(w * h) |->
       IF \/ <<(index1 - 1) % w, (index1 - 1) \div w>> \in Rectangle(x0, x1, y0, y1) \ {hole}
          \/ /\ border
             /\ \/ (index1 - 1) % w \in {0, w - 1}
                \/ (index1 - 1) \div w \in {0, h - 1}
       THEN kGoodFreeSpaceEvidence + 1 ELSE kGoodFreeSpaceEvidence] :
      x0 \in 1..(w - 2), x1 \in 1..(w - 2), y0 \in 1..(h - 2), y1 \in 1..(h - 2),
      hole \in (1..(w - 2)) \X (1..(h - 2)), border \in BOOLEAN }

\* lines 108-112 of FindShortestPaths and 48-51 of ForegroundPath, for a
\* seed of the mask
CallForegroundPath ==
  /\ door_pc = "distance"
  /\ \E start \in { px \in (0..(frame_size[1] - 1)) \X (0..(frame_size[2] - 1)) :
                       mask[(px[2] * frame_size[1] + px[1]) + 1] } :
       /\ seed' = start
       /\ nodes' = [index1 \in 1..(frame_size[1] * frame_size[2]) |->
                      IF index1 - 1 = start[2] * frame_size[1] + start[1]
                      THEN [UnreachedNode EXCEPT !.current_score = <<0, 0>>]
                      ELSE UnreachedNode]
       /\ path_front' = {[score |-> <<0, 0>>, x |-> start[1], y |-> start[2]]}
  /\ door_pc' = "path_front"
  /\ UNCHANGED <<panoVars, visVars, clusterVars, rangeVars, free_space_evidence, paths,
                 sightVars, frame_size, mask, boundary, distance_to_boundary, water_front>>

\* one iteration of "while (!water_front.empty())" of ForegroundPath
ExpandPath ==
  /\ door_pc = "path_front"
  /\ path_front # {}
  /\ \E w \in {frame_size[1]}, node \in {Top(path_front)} :
     \E improved \in {Relaxed(nodes, mask, distance_to_boundary, w, node)} :
         /\ nodes' =
               [index1 \in 1..Len(nodes) |->
                  IF \E n \in improved : n.y * w + n.x = index1 - 1
                  THEN LET n == CHOOSE n \in improved : n.y * w + n.x = index1 - 1
                       IN  [current_score |-> n.score,
                            previous_node |-> PreviousNode(node, n.x, n.y)]
                  ELSE nodes[index1]]
         /\ path_front' = (path_front \ {node}) \cup improved
  /\ UNCHANGED <<panoVars, visVars, clusterVars, rangeVars, free_space_evidence, seed,
                 paths, sightVars, fieldVars>>

\* lines 119-127 of FindShortestPaths: TraceBack for every target
TraceBackAll ==
  /\ door_pc = "path_front"
  /\ path_front = {}
  /\ paths' = [index1 \in 1..Len(nodes) |->
                 TraceBack(nodes, frame_size[1], seed,
                           <<(index1 - 1) % frame_size[1], (index1 - 1) \div frame_size[1]>>)]
  /\ door_pc' = "paths"
  /\ UNCHANGED <<panoVars, visVars, clusterVars, rangeVars, free_space_evidence, seed,
                 nodes, path_front, sightVars, frame_size, mask, boundary,
                 distance_to_boundary, water_front>>

PathInit ==
  /\ PanoramaUnused
  /\ VisUnused
  /\ ClusterUnused
  /\ RangeUnused
  /\ frame_size = <<PathSide, PathSide>>
  /\ free_space_evidence \in PathEvidence(PathSide, PathSide)
  /\ mask = << >>
  /\ boundary = << >>
  /\ distance_to_boundary = << >>
  /\ water_front = {}
  /\ door_pc = "evidence"
  /\ PathUnused
  /\ SightUnused

PathNext ==
  \/ CallSetMask
  \/ CallFindBoundary
  \/ SeedWaterFront
  \/ ExpandWaterFront
  \/ ReturnDistanceToBoundary
  \/ CallForegroundPath
  \/ ExpandPath
  \/ TraceBackAll

PathSpec == PathInit /\ [][PathNext]_vars

\* the two loops pop whenever their queue is not empty
PathFairSpec == PathSpec /\ WF_vars(PathNext)

\* ------------------------------------------------------------------------
\* Properties of the shortest paths (checked under PathSpec)
\* ------------------------------------------------------------------------
NodeAt(p) == nodes[PixelIndex(p) + 1]
PathTo(p) == paths[PixelIndex(p) + 1]
IsReached(p) == NodeAt(p).current_score # FltMax

\* path leads from target back to the pixel next to the seed along the
\* parent pointers, over pixels of the raster, none of them twice
IsParentChain(path, target) ==
  /\ path # << >>
  /\ path[1] = target
  /\ \A n \in 1..Len(path) :
       /\ path[n] \in FramePixels
       /\ path[n] # seed
       /\ IsReached(path[n])
       /\ \A k \in 1..Len(path) : path[k] = path[n] => k = n
       /\ NodeAt(path[n]).previous_node
            = (IF n < Len(path) THEN path[n + 1] ELSE seed)

\* C26: after ForegroundPath from a seed inside the mask the parent
\* pointers form a tree rooted at the seed: from every reached pixel they
\* lead to the seed in finitely many steps, without a pixel visited twice
\* and without reaching the initial pointer (-1, -1), also over edges of
\* weight 0.  TraceBack therefore returns for every target: the empty path
\* for an unreached target, and otherwise the pixels from the target back
\* to, but not including, the seed.
C26_ParentPointersFormTree ==
  door_pc = "paths" =>
    /\ NodeAt(seed) = [current_score |-> <<0, 0>>, previous_node |-> <<-1, -1>>]
    /\ \A target \in FramePixels :
         /\ PathTo(target).outcome = "returned"
         /\ IF ~IsReached(target) \/ target = seed
            THEN PathTo(target).path = << >>
            ELSE IsParentChain(PathTo(target).path, target)

\* a traced path of three pixels or more that runs over an edge of weight 0
C26_Witness ==
  /\ door_pc = "paths"
  /\ \E target \in FramePixels :
       /\ Len(PathTo(target).path) >= 3
       /\ \E n \in 2..Len(PathTo(target).path) :
            /\ DistanceAt(PathTo(target).path[n]) = <<0, 0>>
            /\ NodeAt(PathTo(target).path[n - 1]).current_score
                 = NodeAt(PathTo(target).path[n]).current_score

\* every entry a step adds to a queue carries a score strictly below the
\* one the step found recorded for its pixel, and that score is recorded
RequeuedOnStrictDecrease ==
  /\ door_pc = "water_front" =>
       \A e \in water_front' \ water_front :
         /\ ScoreLess(e.score, distance_to_boundary[(e.y * frame_size[1] + e.x) + 1])
         /\ distance_to_boundary'[(e.y * frame_size[1] + e.x) + 1] = e.score
  /\ door_pc = "path_front" =>
       \A e \in path_front' \ path_front :
         /\ ScoreLess(e.score, nodes[(e.y * frame_size[1] + e.x) + 1].current_score)
         /\ nodes'[(e.y * frame_size[1] + e.x) + 1].current_score = e.score

\* C27: the wavefront of SetDistanceToBoundary and the wavefront of
\* ForegroundPath both terminate on every mask: a pixel is queued again
\* only when its recorded value strictly decreases, so each queue becomes
\* empty although outdated entries stay in it and nothing bounds the
\* number of visits of a pixel.
C27_WavefrontsTerminate ==
  /\ [][RequeuedOnStrictDecrease]_vars
  /\ (door_pc = "water_front") ~> (door_pc = "distance")
  /\ (door_pc = "path_front") ~> (door_pc = "paths")

\* the queue of ForegroundPath holds an entry whose score is no longer the
\* one recorded for its pixel
C27_Witness ==
  /\ door_pc = "path_front"
  /\ \E e \in path_front :
       ScoreLess(nodes[(e.y * frame_size[1] + e.x) + 1].current_score, e.score)

\* the eight neighbours (x + i, y + j) that the loops visit for a popped
\* entry are pixels of the raster, at indexes of the vectors
NeighboursInRaster(e) ==
  \A i \in {-1, 0, 1}, j \in {-1, 0, 1} :
    /\ 0 <= e.x + i /\ e.x + i < frame_size[1]
    /\ 0 <= e.y + j /\ e.y + j < frame_size[2]
    /\ 0 <= (e.y + j) * frame_size[1] + (e.x + i)
    /\ (e.y + j) * frame_size[1] + (e.x + i) < frame_size[1] * frame_size[2]

\* C30: on a mask that is false on the whole one-pixel border, every index
\* the wavefront of SetDistanceToBoundary reads or writes, and every index
\* ForegroundPath reads or writes when started from a seed inside the mask,
\* lies in [0, width * height), and every neighbour (x + i, y + j) the two
\* loops visit lies inside the raster, although neither loop checks bounds.
C30_WavefrontsStayInRaster ==
  /\ door_pc = "water_front" =>
       /\ Len(distance_to_boundary) = frame_size[1] * frame_size[2]
       /\ \A e \in water_front : NeighboursInRaster(e)
  /\ door_pc = "path_front" =>
       /\ Len(nodes) = frame_size[1] * frame_size[2]
       /\ NeighboursInRaster([x |-> seed[1], y |-> seed[2]])
       /\ \A e \in path_front : NeighboursInRaster(e)

\* the evidence is above the threshold on the border of the frame, and an
\* entry for the corner pixel (1, 1), five of whose neighbours are border
\* pixels, waits in the queue of ForegroundPath
C30_Witness ==
  /\ door_pc = "path_front"
  /\ free_space_evidence[1] > kGoodFreeSpaceEvidence
  /\ \E e \in path_front : e.x = 1 /\ e.y = 1
  /\ seed # <<1, 1>>

\* ------------------------------------------------------------------------
\* IsVisible, ComputeVisibility, AssociateWeightToVisibility
\* (door_detection.cc)
\* ------------------------------------------------------------------------
kBoundarySubsampleFifth == 5       \* kBoundarySubsampleRatio = 0.2 = 1 / 5
kClusteringSubsample == 4
kMarginFromBoundaryForVisibility == 5
kVisibilityMargin == 10

\* static_cast<int>(floor(sqrt(n)))
FloorSqrt(n) == CHOOSE r \in 0..n : r * r <= n /\ n < (r + 1) * (r + 1)

\* the count of steps with the norm rounded up
NumStepsCeil(source, target) ==
  LET n == (target[1] - source[1]) * (target[1] - source[1])
             + (target[2] - source[2]) * (target[2] - source[2])
  IN  (IF FloorSqrt(n) * FloorSqrt(n) = n THEN FloorSqrt(n) ELSE FloorSqrt(n) + 1) * 2 + 1

\* "num_steps = static_cast<int>(floor(step.norm())) * 2 + 1"
NumSteps(source, target) ==
  FloorSqrt((target[1] - source[1]) * (target[1] - source[1])
              + (target[2] - source[2]) * (target[2] - source[2])) * 2 + 1

\* round(start + i * step) with step = (target - source) / num_steps; the
\* position is the exact quotient (source * num_steps + i * (target -
\* source)) / num_steps
SampledPixel(source, target, num_steps, i) ==
  << RoundQuot(Quot(source[1] * num_steps + i * (target[1] - source[1]), num_steps)),
     RoundQuot(Quot(source[2] * num_steps + i * (target[2] - source[2]), num_steps)) >>

\* a test that also rejects the last column and the last row
OutsideRasterTight(w, h, x, y) == x < 0 \/ w <= x + 1 \/ y < 0 \/ h <= y + 1

\* "if (x < 0 || width <= x || y < 0 || height <= y)"
OutsideRaster(w, h, x, y) == x < 0 \/ w <= x \/ y < 0 \/ h <= y

\* the loop of IsVisible from step i on: "exit" for exit(1)
RECURSIVE IsVisibleFrom(_, _, _, _, _, _, _)
IsVisibleFrom(w, h, m, source, target, num_steps, i) ==
  IF ~(i < num_steps) THEN "true"
  ELSE LET pixel == SampledPixel(source, target, num_steps, i)
       IN  IF OutsideRaster(w, h, pixel[1], pixel[2]) THEN "exit"
           ELSE IF ~m[(pixel[2] * w + pixel[1]) + 1] THEN "false"
           ELSE IsVisibleFrom(w, h, m, source, target, num_steps, i + 1)

IsVisible(w, h, m, source, target) ==
  IsVisibleFrom(w, h, m, source, target, NumSteps(source, target), kVisibilityMargin)

\* a margin test that lets every pixel of the mask pass
NeverBelowMargin(distance) == FALSE

\* "distance_to_boundary[y * width + x] < kMarginFromBoundaryForVisibility"
BelowMargin(distance) == ScoreLess(distance, <<kMarginFromBoundaryForVisibility, 0>>)

\* the pixel of the frame that the subsampled pixel visibility_index stands for
SubsampledPixel(w, subsample, visibility_index) ==
  << (visibility_index % (w \div subsample)) * subsample,
     (visibility_index \div (w \div subsample)) * subsample >>

\* the subsampled pixels for which ComputeVisibility tests the boundary
TestedPixels(w, h, subsample, m, d) ==
  { visibility_index \in 0..((w \div subsample) * (h \div subsample) - 1) :
      LET px == SubsampledPixel(w, subsample, visibility_index)
      IN  /\ m[(px[2] * w + px[1]) + 1]
          /\ ~BelowMargin(d[(px[2] * w + px[1]) + 1]) }

\* ComputeVisibility: the process ends in exit(1) when a call of IsVisible
\* does; otherwise the visible boundary indexes of every subsampled pixel, in
\* the order of the loop over b
ComputeVisibility(w, h, subsample, bnd, m, d) ==
  LET tested == TestedPixels(w, h, subsample, m, d)
      seen(visibility_index, b) ==
        IsVisible(w, h, m, SubsampledPixel(w, subsample, visibility_index), bnd[b + 1])
  IN  IF \E visibility_index \in tested, b \in 0..(Len(bnd) - 1) :
           seen(visibility_index, b) = "exit"
      THEN [outcome |-> "exit", visibility |-> << >>]
      ELSE [outcome |-> "void",
            visibility |->
              [index1 \in 1..((w \div subsample) * (h \div subsample)) |->
                 IF index1 - 1 \in tested
                 THEN SelectSeq([k \in 1..Len(bnd) |-> k - 1],
                                LAMBDA b : seen(index1 - 1, b) = "true")
                 ELSE << >>]]

\* 1 / (distance + 1) is kept in units of 1 / WeightUnit, the least common
\* multiple of 1..22, and the distance in whole pixels
WeightUnit == 232792560

\* "(pos0 - pos1).norm()"
PixelDistance(pos0, pos1) ==
  FloorSqrt((pos0[1] - pos1[1]) * (pos0[1] - pos1[1])
              + (pos0[2] - pos1[2]) * (pos0[2] - pos1[2]))

\* "1.0 / (distance + 1.0)"
InverseDistance(distance) == WeightUnit \div (distance + 1)

RECURSIVE SumOfWeights(_)
SumOfWeights(weights) ==
  IF weights = << >> THEN 0 ELSE weights[1] + SumOfWeights(Tail(weights))

\* "weighted_visibility->at(visibility_index)[i].second /= weight_sum"
DividedBySum(weights, i) == Quot(weights[i], SumOfWeights(weights))

AssociateWeightToVisibility(w, h, subsample, bnd, visible) ==
  [index1 \in 1..Len(visible) |->
     LET pos0 == SubsampledPixel(w, subsample, index1 - 1)
         weights == [i \in 1..Len(visible[index1]) |->
                       InverseDistance(PixelDistance(pos0, bnd[visible[index1][i] + 1]))]
     IN  [i \in 1..Len(visible[index1]) |-> <<visible[index1][i], DividedBySum(weights, i)>>]]

\* sort(boundary.begin(), boundary.end()) on pair<int, int>
RECURSIVE SortPixels(_)
SortPixels(S) ==
  IF S = {} THEN << >>
  ELSE LET least == CHOOSE p \in S : \A q \in S :
                      p[1] < q[1] \/ (p[1] = q[1] /\ p[2] <= q[2])
       IN  <<least>> \o SortPixels(S \ {least})

\* random_shuffle, resize(size * kBoundarySubsampleRatio), sort: of the
\* shuffles the model takes two that keep every fifth boundary pixel
SubsampledBoundaries(full) ==
  { SortPixels({ full[offset + kBoundarySubsampleFifth * (j - 1) + 1] :
                   j \in 1..(Len(full) \div kBoundarySubsampleFifth) }) :
      offset \in {0, 2} }

\* the masks handed to ComputeVisibility: a rectangle of interior pixels
\* with at most one pixel taken out of it
SightHoles == {<<0, 0>>, <<8, 2>>, <<5, 5>>, <<11, 8>>}
SightMasks(w, h) ==
  { MaskOf(Rectangle(lo, x1, lo, y1) \ {hole}, w, h) :
      lo \in {1, 3}, x1 \in {w - 4, w - 2}, y1 \in {h - 4, h - 2}, hole \in SightHoles }

\* the sources and targets of the calls of IsVisible made on their own:
\* pixels of the raster and points outside it
SightSources == {<<8, 8>>, <<0, 0>>, <<-3, 8>>}
SightTargets(w, h) == (-2..(w + 1)) \X (-2..(h + 1))

CallIsVisible ==
  /\ door_pc = "distance"
  /\ sight = [op |-> "none"]
  /\ \E source \in SightSources, target \in SightTargets(frame_size[1], frame_size[2]) :
       sight' = [op |-> "IsVisible", source |-> source, target |-> target,
                 ret |-> IsVisible(frame_size[1], frame_size[2], mask, source, target)]
  /\ UNCHANGED <<panoVars, visVars, clusterVars, rangeVars, free_space_evidence, pathVars,
                 visibility, fieldVars>>

\* DetectDoors, lines 941-943
CallComputeVisibility ==
  /\ door_pc = "distance"
  /\ sight = [op |-> "none"]
  /\ \E computed \in {ComputeVisibility(frame_size[1], frame_size[2], kClusteringSubsample,
                                          boundary, mask, distance_to_boundary)} :
       /\ visibility' = computed.visibility
       /\ door_pc' = (IF computed.outcome = "exit" THEN "exited" ELSE "visibility")
  /\ UNCHANGED <<panoVars, visVars, clusterVars, rangeVars, free_space_evidence, pathVars,
                 sight, frame_size, mask, boundary, distance_to_boundary, water_front>>

\* DetectDoors, lines 947-950
CallAssociateWeightToVisibility ==
  /\ door_pc = "visibility"
  /\ weighted_visibility' =
       AssociateWeightToVisibility(frame_size[1], frame_size[2], kClusteringSubsample,
                                   boundary, visibility)
  /\ door_pc' = "weighted"
  /\ UNCHANGED <<panoVars, visVars, rangeVars, free_space_evidence, pathVars, sightVars,
                 frame_size, mask, boundary, distance_to_boundary, water_front,
                 centers, clusters, round_t, cluster_t, merged, merge_pc, calls,
                 distances, pairs_to_merge>>

\* the state of DetectDoors after the boundary has been subsampled
SightInit ==
  /\ PanoramaUnused
  /\ VisUnused
  /\ ClusterUnused
  /\ RangeUnused
  /\ frame_size = <<SightSide, SightSide>>
  /\ mask \in SightMasks(SightSide, SightSide)
  /\ boundary \in SubsampledBoundaries(FindBoundary(SightSide, SightSide, mask))
  /\ distance_to_boundary = << >>
  /\ water_front = {}
  /\ door_pc = "boundary"
  /\ free_space_evidence = << >>
  /\ PathUnused
  /\ SightUnused

SightNext ==
  \/ SeedWaterFront
  \/ ExpandWaterFront
  \/ ReturnDistanceToBoundary
  \/ CallIsVisible
  \/ CallComputeVisibility
  \/ CallAssociateWeightToVisibility

SightSpec == SightInit /\ [][SightNext]_vars

\* ------------------------------------------------------------------------
\* Properties of the visibility (checked under SightSpec)
\* ------------------------------------------------------------------------
InRaster(p) ==
  /\ 0 <= p[1] /\ p[1] < frame_size[1]
  /\ 0 <= p[2] /\ p[2] < frame_size[2]
SquaredNorm(source, target) ==
  (target[1] - source[1]) * (target[1] - source[1])
    + (target[2] - source[2]) * (target[2] - source[2])
\* the integer nearest to num / den, for den > 0
NearestInteger(num, den) ==
  CHOOSE k \in -(2 * SightSide)..(2 * SightSide) :
    2 * Abs(num - k * den) <= den /\ (2 * Abs(num - k * den) = den => Abs(k * den) > Abs(num))
\* the pixel nearest to source + i * (target - source) / n
NearestPixel(source, target, n, i) ==
  << NearestInteger(source[1] * n + i * (target[1] - source[1]), n),
     NearestInteger(source[2] * n + i * (target[2] - source[2]), n) >>
\* every position sampled with n increments lies on a pixel of the mask
AllSamplesInMask(source, target, n) ==
  \A i \in kVisibilityMargin..(n - 1) :
    /\ InRaster(NearestPixel(source, target, n, i))
    /\ mask[PixelIndex(NearestPixel(source, target, n, i)) + 1]
\* the norm of target - source, rounded down and rounded up
NormFloor(source, target) ==
  CHOOSE n \in 0..(4 * SightSide) :
    n * n <= SquaredNorm(source, target) /\ SquaredNorm(source, target) < (n + 1) * (n + 1)
NormCeil(source, target) ==
  CHOOSE n \in 0..(4 * SightSide) :
    (n = 0 \/ (n - 1) * (n - 1) < SquaredNorm(source, target))
      /\ SquaredNorm(source, target) <= n * n
\* a call of IsVisible between two pixels of the raster has returned
SightReturned ==
  /\ sight.op = "IsVisible"
  /\ InRaster(sight.source)
  /\ InRaster(sight.target)

\* C23 as stated: IsVisible samples the segment at source + i * (target -
\* source) / N for i = kVisibilityMargin .. N - 1 with N = 2 * ceil(norm of
\* target - source) + 1, and returns true exactly when the nearest pixel of
\* every sampled position is inside the mask.
C23_SamplesWithCeil ==
  SightReturned =>
    (sight.ret = "true"
       <=> AllSamplesInMask(sight.source, sight.target,
                            2 * NormCeil(sight.source, sight.target) + 1))

\* C23, amended: the same with N = 2 * floor(norm of target - source) + 1.
C23_SamplesWithFloor ==
  SightReturned =>
    /\ sight.ret \in {"true", "false"}
    /\ sight.ret = "true"
         <=> AllSamplesInMask(sight.source, sight.target,
                              2 * NormFloor(sight.source, sight.target) + 1)

\* a call that returns true although a position sampled with the rounded-up
\* count of increments lies on a pixel outside the mask
C23_Witness ==
  /\ SightReturned
  /\ sight.ret = "true"
  /\ 2 * NormFloor(sight.source, sight.target) + 1 > kVisibilityMargin
  /\ ~AllSamplesInMask(sight.source, sight.target,
                        2 * NormCeil(sight.source, sight.target) + 1)

\* the positions IsVisible samples between source and target
SampledPositions(source, target) ==
  { NearestPixel(source, target, 2 * NormFloor(source, target) + 1, i) :
      i \in kVisibilityMargin..(2 * NormFloor(source, target)) }
\* the subsampled pixels ComputeVisibility passes to IsVisible as sources
VisibilitySources ==
  { p \in FramePixels :
      /\ p[1] % kClusteringSubsample = 0
      /\ p[2] % kClusteringSubsample = 0
      /\ p[1] \div kClusteringSubsample < frame_size[1] \div kClusteringSubsample
      /\ p[2] \div kClusteringSubsample < frame_size[2] \div kClusteringSubsample
      /\ mask[PixelIndex(p) + 1]
      /\ ~ScoreLess(DistanceAt(p), <<5, 0>>) }

\* C24: a call of IsVisible with source and target inside the raster never
\* reaches the fatal exit, every pixel it samples lies in [0, width) x
\* [0, height); the fatal exit is taken only for a source or a target
\* outside the raster.  Every call ComputeVisibility makes has its source
\* and its target inside the raster, so ComputeVisibility never exits.
C24_NoFatalExitInsideRaster ==
  /\ sight.op = "IsVisible" =>
       /\ (InRaster(sight.source) /\ InRaster(sight.target)) =>
            /\ sight.ret # "exit"
            /\ \A p \in SampledPositions(sight.source, sight.target) : InRaster(p)
       /\ sight.ret = "exit" => (~InRaster(sight.source) \/ ~InRaster(sight.target))
  /\ door_pc = "distance" =>
       \A p \in VisibilitySources : \A b \in 1..Len(boundary) :
         InRaster(p) /\ InRaster(boundary[b])
  /\ door_pc # "exited"

\* a call between two pixels of the raster that has sampled a pixel of the
\* last column of the raster and has returned
C24_Witness ==
  /\ sight.op = "IsVisible"
  /\ InRaster(sight.source)
  /\ InRaster(sight.target)
  /\ sight.ret = "false"
  /\ \E p \in SampledPositions(sight.source, sight.target) : p[1] = frame_size[1] - 1
  /\ \A p \in SampledPositions(sight.source, sight.target) :
       p[1] < frame_size[1] - 1 => mask[PixelIndex(p) + 1]

\* the signature of the subsampled pixel visibility_index and its pixel
SignatureOf(visibility_index) == weighted_visibility[visibility_index + 1]
PixelOf(visibility_index) ==
  << (visibility_index % (frame_size[1] \div 4)) * 4,
     (visibility_index \div (frame_size[1] \div 4)) * 4 >>
\* the distance, in whole pixels, from a subsampled pixel to the boundary
\* point of entry k of its signature
DistanceToSeen(visibility_index, k) ==
  NormFloor(PixelOf(visibility_index), boundary[SignatureOf(visibility_index)[k][1] + 1])
RECURSIVE SumOfNumerators(_)
SumOfNumerators(sig) ==
  IF sig = << >> THEN 0 ELSE sig[1][2][1] + SumOfNumerators(Tail(sig))

====
